---- MODULE Spec2Model ----
(***************************************************************************)
(* Options backtester (src/src/advisor/backtesting/options_backtester.py): *)
(* the Backtester object, its three day-stepped strategies (naked_put,     *)
(* wheel, put_credit_spread), run() and summary().                          *)
(*                                                                         *)
(* Units.  Per-share quantities (close, strike, premium, mark) are         *)
(* integers in units of 0.00001 dollar; money amounts (cash, pnl, equity)  *)
(* are integers in units of 0.001 dollar.  One contract covers 100 shares, *)
(* so "x * 100" of a per-share x is the same integer as a money amount.    *)
(* round(x, 2) is RoundTo(x, Cent) on per-share values and                 *)
(* RoundTo(x, MoneyCent) on money amounts.  Volatility                     *)
(* is an integer in thousandths (0.30 is 300), the oscillator in points       *)
(* (0..100); dates are day numbers.                                        *)
(***************************************************************************)
EXTENDS Integers, Sequences, FiniteSets, TLC

\* ------------------------------------------------------------------ bounds
\* Largest number of bars in the study window: of the runs of all three
\* strategies (Spec), and of the longer wheel-only runs (SpecWheel).
MaxBars == 3
MaxBarsWheel == 4
\* The longest study window of the runs with several initial balances.
MaxBarsEntry == 4
\* The longest study window of the runs with rows that lack a feature.
MaxBarsSkip == 3
\* The longest study window of the wheel runs from a low balance.
MaxBarsLowCash == 3
\* The longest price series compute_rsi is called with.
MaxPrices == 5
\* A run() may start only while the equity curve still has room for a whole
\* window; this caps the growth of equity_curve and trades over repeated runs.
MaxEquity == 4

\* ------------------------------------------------------------------ units
Cent == 1000
MoneyCent == 10
HalfDollar == 50000
Dollar == 2 * HalfDollar

\* float("nan") of a feature column, and Python's None of an Optional field.
NaN == -1000000000
None == -2000000000
NoReason == "None"

isnan(x) == x = NaN

Max(a, b) == IF a >= b THEN a ELSE b
Min(a, b) == IF a <= b THEN a ELSE b

\* Python's round(): to the nearest multiple of q, ties to the even multiple.
RoundTo(x, q) ==
  LET rem == x % q
      lo == x - rem
  IN  IF 2 * rem < q THEN lo
      ELSE IF 2 * rem > q THEN lo + q
      ELSE IF (lo \div q) % 2 = 0 THEN lo ELSE lo + q

\* ------------------------------------------------------------ Black-Scholes
\* The constructor's default risk_free = 0.045, in thousandths.
risk_free == 45
\* A delta of 1.0; deltas are integers in millionths.
DeltaOne == 1000000

\* T = max(dte / 365.0, 0.001) as the fraction <<numerator, denominator>>.
Years(dte) == IF dte * 1000 > 365 THEN <<dte, 365>> ELSE <<1, 1000>>

\*-- tables begin
PutPriceRows ==
  { <<<<1400000, 850000, 31, 365, 45, 300>>, 0>>,
    <<<<1400000, 850000, 32, 365, 45, 300>>, 0>>,
    <<<<1400000, 850000, 33, 365, 45, 300>>, 0>>,
    <<<<1400000, 850000, 34, 365, 45, 300>>, 0>>,
    <<<<1400000, 850000, 35, 365, 45, 300>>, 0>>,
    <<<<1400000, 1062000, 35, 365, 45, 300>>, 40>>,
    <<<<1400000, 1250000, 31, 365, 45, 300>>, 4821>>,
    <<<<1400000, 1250000, 32, 365, 45, 300>>, 5110>>,
    <<<<1400000, 1250000, 33, 365, 45, 300>>, 5401>>,
    <<<<1400000, 1250000, 34, 365, 45, 300>>, 5695>>,
    <<<<1400000, 1350000, 1, 1000, 45, 300>>, 0>>,
    <<<<1400000, 1350000, 31, 365, 45, 300>>, 25244>>,
    <<<<1400000, 1350000, 32, 365, 45, 300>>, 25877>>,
    <<<<1400000, 1350000, 33, 365, 45, 300>>, 26500>>,
    <<<<1400000, 1350000, 34, 365, 45, 300>>, 27115>>,
    <<<<1400000, 1350000, 35, 365, 45, 300>>, 27720>>,
    <<<<1400000, 1400000, 31, 365, 45, 300>>, 46098>>,
    <<<<1400000, 1400000, 32, 365, 45, 300>>, 46791>>,
    <<<<1400000, 1400000, 33, 365, 45, 300>>, 47471>>,
    <<<<1400000, 1400000, 34, 365, 45, 300>>, 48140>>,
    <<<<1400000, 1650000, 31, 365, 45, 300>>, 245435>>,
    <<<<1400000, 1650000, 32, 365, 45, 300>>, 245400>>,
    <<<<1400000, 1650000, 33, 365, 45, 300>>, 245372>>,
    <<<<1400000, 1650000, 34, 365, 45, 300>>, 245350>>,
    <<<<1400000, 1750000, 1, 1000, 45, 300>>, 349921>>,
    <<<<1400000, 1750000, 31, 365, 45, 300>>, 343591>>,
    <<<<1400000, 1750000, 32, 365, 45, 300>>, 343417>>,
    <<<<1400000, 1750000, 33, 365, 45, 300>>, 343246>>,
    <<<<1400000, 1750000, 34, 365, 45, 300>>, 343079>>,
    <<<<1400000, 1900000, 1, 1000, 45, 300>>, 499915>>,
    <<<<1400000, 1900000, 31, 365, 45, 300>>, 492762>>,
    <<<<1400000, 1900000, 32, 365, 45, 300>>, 492532>>,
    <<<<1400000, 1900000, 33, 365, 45, 300>>, 492302>>,
    <<<<1400000, 1900000, 34, 365, 45, 300>>, 492072>>,
    <<<<1400000, 2300000, 31, 365, 45, 300>>, 891226>>,
    <<<<1400000, 2300000, 32, 365, 45, 300>>, 890944>>,
    <<<<1400000, 2300000, 33, 365, 45, 300>>, 890661>>,
    <<<<1400000, 2300000, 34, 365, 45, 300>>, 890379>>,
    <<<<1850000, 850000, 1, 1000, 45, 300>>, 0>>,
    <<<<1850000, 1250000, 1, 1000, 45, 300>>, 0>>,
    <<<<1850000, 1250000, 35, 365, 45, 300>>, 0>>,
    <<<<1850000, 1350000, 1, 1000, 45, 300>>, 0>>,
    <<<<1850000, 1352000, 35, 365, 45, 300>>, 12>>,
    <<<<1850000, 1400000, 1, 1000, 45, 300>>, 0>>,
    <<<<1850000, 1650000, 1, 1000, 45, 300>>, 0>>,
    <<<<1850000, 1750000, 1, 1000, 45, 300>>, 0>>,
    <<<<1850000, 1750000, 35, 365, 45, 300>>, 26131>>,
    <<<<1850000, 1900000, 1, 1000, 0, 300>>, 50013>>,
    <<<<1850000, 1900000, 1, 1000, 0, 900>>, 55005>>,
    <<<<1850000, 1900000, 1, 1000, 45, 300>>, 49928>>,
    <<<<1850000, 1900000, 1, 1000, 45, 900>>, 54934>>,
    <<<<1850000, 1900000, 35, 365, 0, 300>>, 97305>>,
    <<<<1850000, 1900000, 35, 365, 0, 900>>, 233741>>,
    <<<<1850000, 1900000, 35, 365, 45, 300>>, 92218>>,
    <<<<1850000, 1900000, 35, 365, 45, 900>>, 228915>>,
    <<<<1850000, 2000000, 1, 1000, 0, 300>>, 150000>>,
    <<<<1850000, 2000000, 1, 1000, 0, 900>>, 150051>>,
    <<<<1850000, 2000000, 1, 1000, 45, 300>>, 149910>>,
    <<<<1850000, 2000000, 1, 1000, 45, 900>>, 149961>>,
    <<<<1850000, 2000000, 35, 365, 0, 300>>, 170022>>,
    <<<<1850000, 2000000, 35, 365, 0, 900>>, 296572>>,
    <<<<1850000, 2000000, 35, 365, 45, 300>>, 163083>>,
    <<<<1850000, 2000000, 35, 365, 45, 900>>, 290892>>,
    <<<<1850000, 2100000, 1, 1000, 0, 300>>, 250000>>,
    <<<<1850000, 2100000, 1, 1000, 0, 900>>, 250000>>,
    <<<<1850000, 2100000, 1, 1000, 45, 300>>, 249906>>,
    <<<<1850000, 2100000, 1, 1000, 45, 900>>, 249906>>,
    <<<<1850000, 2100000, 35, 365, 0, 300>>, 257253>>,
    <<<<1850000, 2100000, 35, 365, 0, 900>>, 365953>>,
    <<<<1850000, 2100000, 35, 365, 45, 300>>, 248958>>,
    <<<<1850000, 2100000, 35, 365, 45, 900>>, 359432>>,
    <<<<1850000, 2300000, 1, 1000, 45, 300>>, 449897>>,
    <<<<1900000, 850000, 1, 1000, 45, 900>>, 0>>,
    <<<<1900000, 1350000, 1, 1000, 45, 900>>, 0>>,
    <<<<1900000, 1400000, 1, 1000, 45, 900>>, 0>>,
    <<<<1900000, 1650000, 1, 1000, 45, 900>>, 0>>,
    <<<<1900000, 1650000, 35, 365, 45, 900>>, 93668>>,
    <<<<1900000, 1750000, 1, 1000, 45, 900>>, 29>>,
    <<<<1900000, 1900000, 1, 1000, 45, 900>>, 21529>>,
    <<<<1900000, 2300000, 1, 1000, 45, 900>>, 399897>>,
    <<<<2000000, 850000, 31, 365, 45, 100>>, 0>>,
    <<<<2000000, 850000, 31, 365, 45, 300>>, 0>>,
    <<<<2000000, 850000, 32, 365, 45, 100>>, 0>>,
    <<<<2000000, 850000, 32, 365, 45, 300>>, 0>>,
    <<<<2000000, 850000, 33, 365, 45, 100>>, 0>>,
    <<<<2000000, 850000, 33, 365, 45, 300>>, 0>>,
    <<<<2000000, 850000, 34, 365, 45, 100>>, 0>>,
    <<<<2000000, 850000, 34, 365, 45, 300>>, 0>>,
    <<<<2000000, 1250000, 31, 365, 45, 100>>, 0>>,
    <<<<2000000, 1250000, 31, 365, 45, 300>>, 0>>,
    <<<<2000000, 1250000, 32, 365, 45, 100>>, 0>>,
    <<<<2000000, 1250000, 32, 365, 45, 300>>, 0>>,
    <<<<2000000, 1250000, 33, 365, 45, 100>>, 0>>,
    <<<<2000000, 1250000, 33, 365, 45, 300>>, 0>>,
    <<<<2000000, 1250000, 34, 365, 45, 100>>, 0>>,
    <<<<2000000, 1250000, 34, 365, 45, 300>>, 0>>,
    <<<<2000000, 1350000, 31, 365, 45, 100>>, 0>>,
    <<<<2000000, 1350000, 31, 365, 45, 300>>, 0>>,
    <<<<2000000, 1350000, 32, 365, 45, 100>>, 0>>,
    <<<<2000000, 1350000, 32, 365, 45, 300>>, 0>>,
    <<<<2000000, 1350000, 33, 365, 45, 100>>, 0>>,
    <<<<2000000, 1350000, 33, 365, 45, 300>>, 0>>,
    <<<<2000000, 1350000, 34, 365, 45, 100>>, 0>>,
    <<<<2000000, 1350000, 34, 365, 45, 300>>, 0>>,
    <<<<2000000, 1400000, 1, 1000, 45, 300>>, 0>>,
    <<<<2000000, 1400000, 31, 365, 45, 100>>, 0>>,
    <<<<2000000, 1400000, 31, 365, 45, 300>>, 1>>,
    <<<<2000000, 1400000, 32, 365, 45, 100>>, 0>>,
    <<<<2000000, 1400000, 32, 365, 45, 300>>, 1>>,
    <<<<2000000, 1400000, 33, 365, 45, 100>>, 0>>,
    <<<<2000000, 1400000, 33, 365, 45, 300>>, 1>>,
    <<<<2000000, 1400000, 34, 365, 45, 100>>, 0>>,
    <<<<2000000, 1400000, 34, 365, 45, 300>>, 1>>,
    <<<<2000000, 1400000, 35, 365, 45, 300>>, 2>>,
    <<<<2000000, 1450000, 35, 365, 45, 100>>, 0>>,
    <<<<2000000, 1650000, 31, 365, 45, 300>>, 682>>,
    <<<<2000000, 1650000, 31, 365, 45, 900>>, 62282>>,
    <<<<2000000, 1650000, 32, 365, 45, 100>>, 0>>,
    <<<<2000000, 1650000, 32, 365, 45, 300>>, 764>>,
    <<<<2000000, 1650000, 32, 365, 45, 900>>, 64512>>,
    <<<<2000000, 1650000, 33, 365, 45, 100>>, 0>>,
    <<<<2000000, 1650000, 33, 365, 45, 300>>, 851>>,
    <<<<2000000, 1650000, 33, 365, 45, 900>>, 66723>>,
    <<<<2000000, 1650000, 34, 365, 45, 100>>, 0>>,
    <<<<2000000, 1650000, 34, 365, 45, 300>>, 942>>,
    <<<<2000000, 1650000, 34, 365, 45, 900>>, 68915>>,
    <<<<2000000, 1750000, 31, 365, 45, 100>>, 0>>,
    <<<<2000000, 1750000, 31, 365, 45, 300>>, 4058>>,
    <<<<2000000, 1750000, 32, 365, 45, 100>>, 0>>,
    <<<<2000000, 1750000, 32, 365, 45, 300>>, 4353>>,
    <<<<2000000, 1750000, 33, 365, 45, 100>>, 0>>,
    <<<<2000000, 1750000, 33, 365, 45, 300>>, 4653>>,
    <<<<2000000, 1750000, 34, 365, 45, 100>>, 0>>,
    <<<<2000000, 1750000, 34, 365, 45, 300>>, 4959>>,
    <<<<2000000, 1900000, 1, 1000, 0, 300>>, 0>>,
    <<<<2000000, 1900000, 1, 1000, 0, 900>>, 787>>,
    <<<<2000000, 1900000, 1, 1000, 45, 100>>, 0>>,
    <<<<2000000, 1900000, 1, 1000, 45, 300>>, 0>>,
    <<<<2000000, 1900000, 1, 1000, 45, 900>>, 784>>,
    <<<<2000000, 1900000, 31, 365, 45, 100>>, 641>>,
    <<<<2000000, 1900000, 31, 365, 45, 300>>, 27286>>,
    <<<<2000000, 1900000, 32, 365, 45, 100>>, 696>>,
    <<<<2000000, 1900000, 32, 365, 45, 300>>, 28112>>,
    <<<<2000000, 1900000, 33, 365, 45, 100>>, 752>>,
    <<<<2000000, 1900000, 33, 365, 45, 300>>, 28928>>,
    <<<<2000000, 1900000, 34, 365, 45, 100>>, 810>>,
    <<<<2000000, 1900000, 34, 365, 45, 300>>, 29735>>,
    <<<<2000000, 1900000, 35, 365, 0, 300>>, 32973>>,
    <<<<2000000, 1900000, 35, 365, 0, 900>>, 169733>>,
    <<<<2000000, 1900000, 35, 365, 45, 300>>, 30532>>,
    <<<<2000000, 1900000, 35, 365, 45, 900>>, 165814>>,
    <<<<2000000, 1950000, 35, 365, 45, 100>>, 5514>>,
    <<<<2000000, 2000000, 1, 1000, 0, 300>>, 7569>>,
    <<<<2000000, 2000000, 1, 1000, 0, 900>>, 22707>>,
    <<<<2000000, 2000000, 1, 1000, 45, 300>>, 7524>>,
    <<<<2000000, 2000000, 1, 1000, 45, 900>>, 22662>>,
    <<<<2000000, 2000000, 35, 365, 0, 300>>, 74096>>,
    <<<<2000000, 2000000, 35, 365, 0, 900>>, 221649>>,
    <<<<2000000, 2000000, 35, 365, 45, 300>>, 69710>>,
    <<<<2000000, 2000000, 35, 365, 45, 900>>, 216893>>,
    <<<<2000000, 2100000, 1, 1000, 0, 300>>, 100000>>,
    <<<<2000000, 2100000, 1, 1000, 0, 900>>, 101030>>,
    <<<<2000000, 2100000, 1, 1000, 45, 300>>, 99906>>,
    <<<<2000000, 2100000, 1, 1000, 45, 900>>, 100939>>,
    <<<<2000000, 2100000, 35, 365, 0, 300>>, 136178>>,
    <<<<2000000, 2100000, 35, 365, 0, 900>>, 280640>>,
    <<<<2000000, 2100000, 35, 365, 45, 300>>, 129774>>,
    <<<<2000000, 2100000, 35, 365, 45, 900>>, 275030>>,
    <<<<2000000, 2300000, 1, 1000, 45, 300>>, 299897>>,
    <<<<2000000, 2300000, 31, 365, 45, 300>>, 296057>>,
    <<<<2000000, 2300000, 32, 365, 45, 100>>, 290944>>,
    <<<<2000000, 2300000, 32, 365, 45, 300>>, 296155>>,
    <<<<2000000, 2300000, 33, 365, 45, 100>>, 290662>>,
    <<<<2000000, 2300000, 33, 365, 45, 300>>, 296261>>,
    <<<<2000000, 2300000, 34, 365, 45, 100>>, 290379>>,
    <<<<2000000, 2300000, 34, 365, 45, 300>>, 296376>>,
    <<<<2400000, 850000, 1, 1000, 45, 300>>, 0>>,
    <<<<2400000, 850000, 31, 365, 45, 300>>, 0>>,
    <<<<2400000, 850000, 32, 365, 45, 300>>, 0>>,
    <<<<2400000, 850000, 33, 365, 45, 300>>, 0>>,
    <<<<2400000, 850000, 34, 365, 45, 300>>, 0>>,
    <<<<2400000, 1250000, 31, 365, 45, 300>>, 0>>,
    <<<<2400000, 1250000, 32, 365, 45, 300>>, 0>>,
    <<<<2400000, 1250000, 33, 365, 45, 300>>, 0>>,
    <<<<2400000, 1250000, 34, 365, 45, 300>>, 0>>,
    <<<<2400000, 1350000, 1, 1000, 45, 300>>, 0>>,
    <<<<2400000, 1350000, 31, 365, 45, 300>>, 0>>,
    <<<<2400000, 1350000, 32, 365, 45, 300>>, 0>>,
    <<<<2400000, 1350000, 33, 365, 45, 300>>, 0>>,
    <<<<2400000, 1350000, 34, 365, 45, 300>>, 0>>,
    <<<<2400000, 1400000, 1, 1000, 45, 300>>, 0>>,
    <<<<2400000, 1400000, 31, 365, 45, 300>>, 0>>,
    <<<<2400000, 1400000, 32, 365, 45, 300>>, 0>>,
    <<<<2400000, 1400000, 33, 365, 45, 300>>, 0>>,
    <<<<2400000, 1400000, 34, 365, 45, 300>>, 0>>,
    <<<<2400000, 1650000, 1, 1000, 45, 300>>, 0>>,
    <<<<2400000, 1650000, 32, 365, 45, 300>>, 0>>,
    <<<<2400000, 1650000, 33, 365, 45, 300>>, 1>>,
    <<<<2400000, 1650000, 34, 365, 45, 300>>, 1>>,
    <<<<2400000, 1750000, 1, 1000, 45, 300>>, 0>>,
    <<<<2400000, 1750000, 31, 365, 45, 300>>, 6>>,
    <<<<2400000, 1750000, 32, 365, 45, 300>>, 7>>,
    <<<<2400000, 1750000, 33, 365, 45, 300>>, 9>>,
    <<<<2400000, 1750000, 34, 365, 45, 300>>, 11>>,
    <<<<2400000, 1900000, 1, 1000, 45, 300>>, 0>>,
    <<<<2400000, 1900000, 31, 365, 45, 300>>, 187>>,
    <<<<2400000, 1900000, 32, 365, 45, 300>>, 218>>,
    <<<<2400000, 1900000, 33, 365, 45, 300>>, 251>>,
    <<<<2400000, 1900000, 34, 365, 45, 300>>, 288>>,
    <<<<2400000, 2000000, 35, 365, 45, 300>>, 1682>>,
    <<<<2400000, 2025870, 35, 365, 45, 300>>, 2435>>,
    <<<<2400000, 2028280, 35, 365, 45, 300>>, 2518>>,
    <<<<2400000, 2031470, 35, 365, 45, 300>>, 2632>>,
    <<<<2400000, 2047040, 35, 365, 45, 300>>, 3249>>,
    <<<<2400000, 2052000, 35, 365, 45, 300>>, 3469>>,
    <<<<2400000, 2056000, 35, 365, 45, 300>>, 3656>>,
    <<<<2400000, 2062000, 35, 365, 45, 300>>, 3952>>,
    <<<<2400000, 2300000, 1, 1000, 45, 300>>, 0>>,
    <<<<2400000, 2300000, 32, 365, 45, 300>>, 39686>>,
    <<<<2400000, 2300000, 33, 365, 45, 300>>, 40720>>,
    <<<<2400000, 2300000, 34, 365, 45, 300>>, 41741>>,
    <<<<2400000, 2300000, 35, 365, 45, 300>>, 42748>> }
PutPriceTable == [k \in {row[1] : row \in PutPriceRows} |-> (CHOOSE row \in PutPriceRows : row[1] = k)[2]]

CallPriceRows ==
  { <<<<1400000, 1758480, 35, 365, 45, 300>>, 386>>,
    <<<<1400000, 1906380, 35, 365, 45, 300>>, 21>>,
    <<<<1400000, 1950000, 1, 1000, 45, 300>>, 0>>,
    <<<<1400000, 1950000, 33, 365, 45, 300>>, 5>>,
    <<<<1400000, 1950000, 34, 365, 45, 300>>, 7>>,
    <<<<1400000, 2050000, 34, 365, 45, 300>>, 1>>,
    <<<<1400000, 2100000, 1, 1000, 45, 300>>, 0>>,
    <<<<1400000, 2100000, 33, 365, 45, 300>>, 0>>,
    <<<<1400000, 2100000, 34, 365, 45, 300>>, 0>>,
    <<<<1400000, 2300000, 33, 365, 45, 300>>, 0>>,
    <<<<1400000, 2300000, 34, 365, 45, 300>>, 0>>,
    <<<<1400000, 2302000, 33, 365, 45, 300>>, 0>>,
    <<<<1400000, 2302000, 34, 365, 45, 300>>, 0>>,
    <<<<1400000, 2302140, 35, 365, 45, 300>>, 0>>,
    <<<<1400000, 2550000, 1, 1000, 45, 300>>, 0>>,
    <<<<1400000, 2550000, 33, 365, 45, 300>>, 0>>,
    <<<<1400000, 2550000, 34, 365, 45, 300>>, 0>>,
    <<<<1850000, 1900000, 1, 1000, 0, 300>>, 13>>,
    <<<<1850000, 1900000, 1, 1000, 0, 900>>, 5005>>,
    <<<<1850000, 1900000, 1, 1000, 45, 300>>, 13>>,
    <<<<1850000, 1900000, 1, 1000, 45, 900>>, 5019>>,
    <<<<1850000, 1900000, 35, 365, 0, 300>>, 47305>>,
    <<<<1850000, 1900000, 35, 365, 0, 900>>, 183741>>,
    <<<<1850000, 1900000, 35, 365, 45, 300>>, 50399>>,
    <<<<1850000, 1900000, 35, 365, 45, 900>>, 187096>>,
    <<<<1850000, 1950000, 1, 1000, 45, 300>>, 0>>,
    <<<<1850000, 1950000, 35, 365, 45, 300>>, 33720>>,
    <<<<1850000, 2000000, 1, 1000, 0, 300>>, 0>>,
    <<<<1850000, 2000000, 1, 1000, 0, 900>>, 51>>,
    <<<<1850000, 2000000, 1, 1000, 45, 300>>, 0>>,
    <<<<1850000, 2000000, 1, 1000, 45, 900>>, 51>>,
    <<<<1850000, 2000000, 35, 365, 0, 300>>, 20022>>,
    <<<<1850000, 2000000, 35, 365, 0, 900>>, 146572>>,
    <<<<1850000, 2000000, 35, 365, 45, 300>>, 21695>>,
    <<<<1850000, 2000000, 35, 365, 45, 900>>, 149503>>,
    <<<<1850000, 2050000, 1, 1000, 45, 300>>, 0>>,
    <<<<1850000, 2100000, 1, 1000, 0, 300>>, 0>>,
    <<<<1850000, 2100000, 1, 1000, 0, 900>>, 0>>,
    <<<<1850000, 2100000, 1, 1000, 45, 300>>, 0>>,
    <<<<1850000, 2100000, 1, 1000, 45, 900>>, 0>>,
    <<<<1850000, 2100000, 35, 365, 0, 300>>, 7253>>,
    <<<<1850000, 2100000, 35, 365, 0, 900>>, 115953>>,
    <<<<1850000, 2100000, 35, 365, 45, 300>>, 8000>>,
    <<<<1850000, 2100000, 35, 365, 45, 900>>, 118474>>,
    <<<<1850000, 2300000, 1, 1000, 45, 300>>, 0>>,
    <<<<1850000, 2302000, 1, 1000, 45, 300>>, 0>>,
    <<<<1850000, 2302140, 35, 365, 45, 300>>, 685>>,
    <<<<1850000, 2550000, 1, 1000, 45, 300>>, 0>>,
    <<<<1900000, 1950000, 1, 1000, 45, 900>>, 5390>>,
    <<<<1900000, 2050000, 1, 1000, 45, 900>>, 66>>,
    <<<<1900000, 2100000, 1, 1000, 45, 900>>, 3>>,
    <<<<1900000, 2300000, 1, 1000, 45, 900>>, 0>>,
    <<<<1900000, 2300000, 35, 365, 45, 900>>, 86886>>,
    <<<<1900000, 2302000, 1, 1000, 45, 900>>, 0>>,
    <<<<1900000, 2302000, 35, 365, 45, 900>>, 86470>>,
    <<<<1900000, 2302140, 35, 365, 45, 900>>, 86441>>,
    <<<<1900000, 2550000, 1, 1000, 45, 900>>, 0>>,
    <<<<2000000, 1900000, 1, 1000, 0, 300>>, 100000>>,
    <<<<2000000, 1900000, 1, 1000, 0, 900>>, 100787>>,
    <<<<2000000, 1900000, 1, 1000, 45, 300>>, 100085>>,
    <<<<2000000, 1900000, 1, 1000, 45, 900>>, 100870>>,
    <<<<2000000, 1900000, 35, 365, 0, 300>>, 132973>>,
    <<<<2000000, 1900000, 35, 365, 0, 900>>, 269733>>,
    <<<<2000000, 1900000, 35, 365, 45, 300>>, 138713>>,
    <<<<2000000, 1900000, 35, 365, 45, 900>>, 273995>>,
    <<<<2000000, 1950000, 33, 365, 45, 300>>, 103593>>,
    <<<<2000000, 1950000, 34, 365, 45, 100>>, 63492>>,
    <<<<2000000, 1950000, 34, 365, 45, 300>>, 104750>>,
    <<<<2000000, 2000000, 1, 1000, 0, 300>>, 7569>>,
    <<<<2000000, 2000000, 1, 1000, 0, 900>>, 22707>>,
    <<<<2000000, 2000000, 1, 1000, 45, 300>>, 7614>>,
    <<<<2000000, 2000000, 1, 1000, 45, 900>>, 22752>>,
    <<<<2000000, 2000000, 35, 365, 0, 300>>, 74096>>,
    <<<<2000000, 2000000, 35, 365, 0, 900>>, 221649>>,
    <<<<2000000, 2000000, 35, 365, 45, 300>>, 78322>>,
    <<<<2000000, 2000000, 35, 365, 45, 900>>, 225504>>,
    <<<<2000000, 2050000, 34, 365, 45, 100>>, 9241>>,
    <<<<2000000, 2050000, 34, 365, 45, 300>>, 54915>>,
    <<<<2000000, 2050000, 35, 365, 45, 100>>, 9591>>,
    <<<<2000000, 2100000, 1, 1000, 0, 300>>, 0>>,
    <<<<2000000, 2100000, 1, 1000, 0, 900>>, 1030>>,
    <<<<2000000, 2100000, 1, 1000, 45, 300>>, 0>>,
    <<<<2000000, 2100000, 1, 1000, 45, 900>>, 1034>>,
    <<<<2000000, 2100000, 33, 365, 45, 300>>, 36713>>,
    <<<<2000000, 2100000, 34, 365, 45, 100>>, 1997>>,
    <<<<2000000, 2100000, 34, 365, 45, 300>>, 37770>>,
    <<<<2000000, 2100000, 35, 365, 0, 300>>, 36178>>,
    <<<<2000000, 2100000, 35, 365, 0, 900>>, 180640>>,
    <<<<2000000, 2100000, 35, 365, 45, 300>>, 38816>>,
    <<<<2000000, 2100000, 35, 365, 45, 900>>, 184072>>,
    <<<<2000000, 2300000, 33, 365, 45, 300>>, 5599>>,
    <<<<2000000, 2300000, 33, 365, 45, 900>>, 113782>>,
    <<<<2000000, 2300000, 34, 365, 45, 100>>, 0>>,
    <<<<2000000, 2300000, 34, 365, 45, 300>>, 5997>>,
    <<<<2000000, 2300000, 34, 365, 45, 900>>, 116898>>,
    <<<<2000000, 2302000, 33, 365, 45, 300>>, 5480>>,
    <<<<2000000, 2302000, 33, 365, 45, 900>>, 113261>>,
    <<<<2000000, 2302000, 34, 365, 45, 100>>, 0>>,
    <<<<2000000, 2302000, 34, 365, 45, 300>>, 5872>>,
    <<<<2000000, 2302000, 34, 365, 45, 900>>, 116374>>,
    <<<<2000000, 2302000, 35, 365, 45, 300>>, 6272>>,
    <<<<2000000, 2302140, 35, 365, 45, 100>>, 0>>,
    <<<<2000000, 2302140, 35, 365, 45, 300>>, 6263>>,
    <<<<2000000, 2550000, 33, 365, 45, 300>>, 255>>,
    <<<<2000000, 2550000, 34, 365, 45, 100>>, 0>>,
    <<<<2000000, 2550000, 34, 365, 45, 300>>, 295>>,
    <<<<2400000, 1950000, 1, 1000, 45, 300>>, 450088>>,
    <<<<2400000, 1950000, 34, 365, 45, 300>>, 458852>>,
    <<<<2400000, 2050000, 1, 1000, 45, 300>>, 350092>>,
    <<<<2400000, 2050000, 34, 365, 45, 300>>, 361712>>,
    <<<<2400000, 2100000, 1, 1000, 45, 300>>, 300094>>,
    <<<<2400000, 2100000, 34, 365, 45, 300>>, 314735>>,
    <<<<2400000, 2300000, 1, 1000, 45, 300>>, 100104>>,
    <<<<2400000, 2300000, 34, 365, 45, 300>>, 151362>>,
    <<<<2400000, 2302000, 1, 1000, 45, 300>>, 98104>>,
    <<<<2400000, 2302000, 34, 365, 45, 300>>, 150013>>,
    <<<<2400000, 2550000, 1, 1000, 45, 300>>, 0>>,
    <<<<2400000, 2550000, 34, 365, 45, 300>>, 37102>>,
    <<<<2400000, 2550000, 35, 365, 45, 300>>, 38273>> }
CallPriceTable == [k \in {row[1] : row \in CallPriceRows} |-> (CHOOSE row \in CallPriceRows : row[1] = k)[2]]

PutDeltaRows ==
  { <<<<100000, 70000, 35, 365, 45, 300>>, -42>>,
    <<<<1020000, 714000, 35, 365, 45, 300>>, -42>>,
    <<<<1020000, 764000, 35, 365, 45, 300>>, -678>>,
    <<<<1020000, 814000, 35, 365, 45, 300>>, -5846>>,
    <<<<1020000, 864000, 35, 365, 45, 300>>, -30079>>,
    <<<<1020000, 914000, 35, 365, 45, 300>>, -101323>>,
    <<<<1020000, 964000, 35, 365, 45, 300>>, -241736>>,
    <<<<1020000, 1014000, 35, 365, 45, 300>>, -437857>>,
    <<<<1040000, 728000, 35, 365, 45, 300>>, -42>>,
    <<<<1040000, 778000, 35, 365, 45, 300>>, -647>>,
    <<<<1040000, 828000, 35, 365, 45, 300>>, -5436>>,
    <<<<1040000, 878000, 35, 365, 45, 300>>, -27706>>,
    <<<<1040000, 928000, 35, 365, 45, 300>>, -93510>>,
    <<<<1040000, 978000, 35, 365, 45, 300>>, -225260>>,
    <<<<1040000, 1028000, 35, 365, 45, 300>>, -413782>>,
    <<<<1400000, 980000, 35, 365, 45, 300>>, -42>>,
    <<<<1400000, 1030000, 35, 365, 45, 300>>, -341>>,
    <<<<1400000, 1080000, 35, 365, 45, 300>>, -1948>>,
    <<<<1400000, 1130000, 35, 365, 45, 300>>, -8215>>,
    <<<<1400000, 1180000, 35, 365, 45, 300>>, -26608>>,
    <<<<1400000, 1230000, 35, 365, 45, 300>>, -68581>>,
    <<<<1400000, 1280000, 35, 365, 45, 300>>, -145137>>,
    <<<<1400000, 1330000, 35, 365, 45, 300>>, -259450>>,
    <<<<1400000, 1380000, 35, 365, 45, 300>>, -402150>>,
    <<<<1850000, 1295000, 35, 365, 45, 300>>, -42>>,
    <<<<1850000, 1345000, 35, 365, 45, 300>>, -212>>,
    <<<<1850000, 1395000, 35, 365, 45, 300>>, -869>>,
    <<<<1850000, 1445000, 35, 365, 45, 300>>, -2957>>,
    <<<<1850000, 1495000, 35, 365, 45, 300>>, -8508>>,
    <<<<1850000, 1545000, 35, 365, 45, 300>>, -21065>>,
    <<<<1850000, 1595000, 35, 365, 45, 300>>, -45572>>,
    <<<<1850000, 1645000, 35, 365, 45, 300>>, -87370>>,
    <<<<1850000, 1695000, 35, 365, 45, 300>>, -150377>>,
    <<<<1850000, 1745000, 35, 365, 45, 300>>, -235185>>,
    <<<<1850000, 1795000, 35, 365, 45, 300>>, -338056>>,
    <<<<1850000, 1845000, 35, 365, 45, 300>>, -451437>>,
    <<<<1850000, 1900000, 1, 1000, 0, 300>>, -997495>>,
    <<<<1850000, 1900000, 1, 1000, 0, 900>>, -821943>>,
    <<<<1850000, 1900000, 1, 1000, 45, 300>>, -997457>>,
    <<<<1850000, 1900000, 1, 1000, 45, 900>>, -821531>>,
    <<<<1850000, 1900000, 35, 365, 0, 300>>, -595075>>,
    <<<<1850000, 1900000, 35, 365, 0, 900>>, -482588>>,
    <<<<1850000, 1900000, 35, 365, 45, 300>>, -576979>>,
    <<<<1850000, 1900000, 35, 365, 45, 900>>, -476420>>,
    <<<<1850000, 2000000, 1, 1000, 0, 300>>, -1000000>>,
    <<<<1850000, 2000000, 1, 1000, 0, 900>>, -996786>>,
    <<<<1850000, 2000000, 1, 1000, 45, 300>>, -1000000>>,
    <<<<1850000, 2000000, 1, 1000, 45, 900>>, -996770>>,
    <<<<1850000, 2000000, 35, 365, 0, 300>>, -786042>>,
    <<<<1850000, 2000000, 35, 365, 0, 900>>, -555824>>,
    <<<<1850000, 2000000, 35, 365, 45, 300>>, -772261>>,
    <<<<1850000, 2000000, 35, 365, 45, 900>>, -549701>>,
    <<<<1850000, 2100000, 1, 1000, 0, 300>>, -1000000>>,
    <<<<1850000, 2100000, 1, 1000, 0, 900>>, -999995>>,
    <<<<1850000, 2100000, 1, 1000, 45, 300>>, -1000000>>,
    <<<<1850000, 2100000, 1, 1000, 45, 900>>, -999995>>,
    <<<<1850000, 2100000, 35, 365, 0, 300>>, -906242>>,
    <<<<1850000, 2100000, 35, 365, 0, 900>>, -623792>>,
    <<<<1850000, 2100000, 35, 365, 45, 300>>, -898227>>,
    <<<<1850000, 2100000, 35, 365, 45, 900>>, -617901>>,
    <<<<1900000, 1330000, 35, 365, 45, 900>>, -75696>>,
    <<<<1900000, 1380000, 35, 365, 45, 900>>, -96422>>,
    <<<<1900000, 1430000, 35, 365, 45, 900>>, -120096>>,
    <<<<1900000, 1480000, 35, 365, 45, 900>>, -146585>>,
    <<<<1900000, 1530000, 35, 365, 45, 900>>, -175675>>,
    <<<<1900000, 1580000, 35, 365, 45, 900>>, -207082>>,
    <<<<1900000, 1630000, 35, 365, 45, 900>>, -240467>>,
    <<<<1900000, 1680000, 35, 365, 45, 900>>, -275458>>,
    <<<<1900000, 1730000, 35, 365, 45, 900>>, -311658>>,
    <<<<1900000, 1780000, 35, 365, 45, 900>>, -348666>>,
    <<<<1900000, 1830000, 35, 365, 45, 900>>, -386091>>,
    <<<<1900000, 1880000, 35, 365, 45, 900>>, -423557>>,
    <<<<2000000, 1400000, 35, 365, 45, 100>>, 0>>,
    <<<<2000000, 1400000, 35, 365, 45, 300>>, -42>>,
    <<<<2000000, 1450000, 35, 365, 45, 100>>, 0>>,
    <<<<2000000, 1450000, 35, 365, 45, 300>>, -189>>,
    <<<<2000000, 1500000, 35, 365, 45, 100>>, 0>>,
    <<<<2000000, 1500000, 35, 365, 45, 300>>, -712>>,
    <<<<2000000, 1550000, 35, 365, 45, 100>>, 0>>,
    <<<<2000000, 1550000, 35, 365, 45, 300>>, -2279>>,
    <<<<2000000, 1600000, 35, 365, 45, 100>>, 0>>,
    <<<<2000000, 1600000, 35, 365, 45, 300>>, -6299>>,
    <<<<2000000, 1650000, 35, 365, 45, 100>>, 0>>,
    <<<<2000000, 1650000, 35, 365, 45, 300>>, -15245>>,
    <<<<2000000, 1700000, 35, 365, 45, 100>>, 0>>,
    <<<<2000000, 1700000, 35, 365, 45, 300>>, -32714>>,
    <<<<2000000, 1750000, 35, 365, 45, 100>>, -4>>,
    <<<<2000000, 1750000, 35, 365, 45, 300>>, -62973>>,
    <<<<2000000, 1800000, 35, 365, 45, 100>>, -187>>,
    <<<<2000000, 1800000, 35, 365, 45, 300>>, -109903>>,
    <<<<2000000, 1850000, 35, 365, 45, 100>>, -3765>>,
    <<<<2000000, 1850000, 35, 365, 45, 300>>, -175640>>,
    <<<<2000000, 1900000, 1, 1000, 0, 300>>, 0>>,
    <<<<2000000, 1900000, 1, 1000, 0, 900>>, -34647>>,
    <<<<2000000, 1900000, 1, 1000, 45, 300>>, 0>>,
    <<<<2000000, 1900000, 1, 1000, 45, 900>>, -34526>>,
    <<<<2000000, 1900000, 35, 365, 0, 300>>, -274722>>,
    <<<<2000000, 1900000, 35, 365, 0, 900>>, -373198>>,
    <<<<2000000, 1900000, 35, 365, 45, 100>>, -35050>>,
    <<<<2000000, 1900000, 35, 365, 45, 300>>, -259450>>,
    <<<<2000000, 1900000, 35, 365, 45, 900>>, -367351>>,
    <<<<2000000, 1950000, 35, 365, 45, 100>>, -165419>>,
    <<<<2000000, 1950000, 35, 365, 45, 300>>, -357395>>,
    <<<<2000000, 2000000, 1, 1000, 0, 300>>, -498108>>,
    <<<<2000000, 2000000, 1, 1000, 0, 900>>, -494323>>,
    <<<<2000000, 2000000, 1, 1000, 45, 300>>, -496215>>,
    <<<<2000000, 2000000, 1, 1000, 45, 900>>, -493692>>,
    <<<<2000000, 2000000, 35, 365, 0, 300>>, -481476>>,
    <<<<2000000, 2000000, 35, 365, 0, 900>>, -444588>>,
    <<<<2000000, 2000000, 35, 365, 45, 100>>, -438477>>,
    <<<<2000000, 2000000, 35, 365, 45, 300>>, -462992>>,
    <<<<2000000, 2000000, 35, 365, 45, 900>>, -438477>>,
    <<<<2000000, 2100000, 1, 1000, 0, 300>>, -1000000>>,
    <<<<2000000, 2100000, 1, 1000, 0, 900>>, -955442>>,
    <<<<2000000, 2100000, 1, 1000, 45, 300>>, -1000000>>,
    <<<<2000000, 2100000, 1, 1000, 45, 900>>, -955293>>,
    <<<<2000000, 2100000, 35, 365, 0, 300>>, -683941>>,
    <<<<2000000, 2100000, 35, 365, 0, 900>>, -514247>>,
    <<<<2000000, 2100000, 35, 365, 45, 300>>, -667238>>,
    <<<<2000000, 2100000, 35, 365, 45, 900>>, -508072>>,
    <<<<2400000, 1680000, 35, 365, 45, 300>>, -42>>,
    <<<<2400000, 1730000, 35, 365, 45, 300>>, -149>>,
    <<<<2400000, 1780000, 35, 365, 45, 300>>, -467>>,
    <<<<2400000, 1830000, 35, 365, 45, 300>>, -1299>>,
    <<<<2400000, 1880000, 35, 365, 45, 300>>, -3249>>,
    <<<<2400000, 1930000, 35, 365, 45, 300>>, -7364>>,
    <<<<2400000, 1980000, 35, 365, 45, 300>>, -15245>>,
    <<<<2400000, 2030000, 35, 365, 45, 300>>, -29032>>,
    <<<<2400000, 2080000, 35, 365, 45, 300>>, -51203>>,
    <<<<2400000, 2130000, 35, 365, 45, 300>>, -84164>>,
    <<<<2400000, 2180000, 35, 365, 45, 300>>, -129695>>,
    <<<<2400000, 2230000, 35, 365, 45, 300>>, -188421>>,
    <<<<2400000, 2280000, 35, 365, 45, 300>>, -259450>>,
    <<<<2400000, 2330000, 35, 365, 45, 300>>, -340342>>,
    <<<<2400000, 2380000, 35, 365, 45, 300>>, -427408>> }
PutDeltaTable == [k \in {row[1] : row \in PutDeltaRows} |-> (CHOOSE row \in PutDeltaRows : row[1] = k)[2]]

CallDeltaRows ==
  { <<<<100000, 100000, 35, 365, 45, 300>>, 537008>>,
    <<<<1020000, 1020000, 35, 365, 45, 300>>, 537008>>,
    <<<<1020000, 1070000, 35, 365, 45, 300>>, 336423>>,
    <<<<1020000, 1120000, 35, 365, 45, 300>>, 180396>>,
    <<<<1020000, 1170000, 35, 365, 45, 300>>, 83180>>,
    <<<<1020000, 1220000, 35, 365, 45, 300>>, 33293>>,
    <<<<1020000, 1270000, 35, 365, 45, 300>>, 11701>>,
    <<<<1020000, 1320000, 35, 365, 45, 300>>, 3654>>,
    <<<<1040000, 1040000, 35, 365, 45, 300>>, 537008>>,
    <<<<1040000, 1090000, 35, 365, 45, 300>>, 339962>>,
    <<<<1040000, 1140000, 35, 365, 45, 300>>, 185298>>,
    <<<<1040000, 1190000, 35, 365, 45, 300>>, 87324>>,
    <<<<1040000, 1240000, 35, 365, 45, 300>>, 35894>>,
    <<<<1040000, 1290000, 35, 365, 45, 300>>, 13007>>,
    <<<<1040000, 1340000, 35, 365, 45, 300>>, 4203>>,
    <<<<1400000, 1400000, 35, 365, 45, 300>>, 537008>>,
    <<<<1400000, 1450000, 35, 365, 45, 300>>, 387884>>,
    <<<<1400000, 1500000, 35, 365, 45, 300>>, 257920>>,
    <<<<1400000, 1550000, 35, 365, 45, 300>>, 157995>>,
    <<<<1400000, 1600000, 35, 365, 45, 300>>, 89395>>,
    <<<<1400000, 1650000, 35, 365, 45, 300>>, 46895>>,
    <<<<1400000, 1700000, 35, 365, 45, 300>>, 22908>>,
    <<<<1400000, 1750000, 35, 365, 45, 300>>, 10469>>,
    <<<<1400000, 1800000, 35, 365, 45, 300>>, 4496>>,
    <<<<1850000, 1850000, 35, 365, 45, 300>>, 537008>>,
    <<<<1850000, 1900000, 1, 1000, 0, 300>>, 2505>>,
    <<<<1850000, 1900000, 1, 1000, 0, 900>>, 178057>>,
    <<<<1850000, 1900000, 1, 1000, 45, 300>>, 2543>>,
    <<<<1850000, 1900000, 1, 1000, 45, 900>>, 178469>>,
    <<<<1850000, 1900000, 35, 365, 0, 300>>, 404925>>,
    <<<<1850000, 1900000, 35, 365, 0, 900>>, 517412>>,
    <<<<1850000, 1900000, 35, 365, 45, 300>>, 423021>>,
    <<<<1850000, 1900000, 35, 365, 45, 900>>, 523580>>,
    <<<<1850000, 1950000, 35, 365, 45, 300>>, 317828>>,
    <<<<1850000, 2000000, 1, 1000, 0, 300>>, 0>>,
    <<<<1850000, 2000000, 1, 1000, 0, 900>>, 3214>>,
    <<<<1850000, 2000000, 1, 1000, 45, 300>>, 0>>,
    <<<<1850000, 2000000, 1, 1000, 45, 900>>, 3230>>,
    <<<<1850000, 2000000, 35, 365, 0, 300>>, 213958>>,
    <<<<1850000, 2000000, 35, 365, 0, 900>>, 444176>>,
    <<<<1850000, 2000000, 35, 365, 45, 300>>, 227739>>,
    <<<<1850000, 2000000, 35, 365, 45, 900>>, 450299>>,
    <<<<1850000, 2050000, 35, 365, 45, 300>>, 155741>>,
    <<<<1850000, 2100000, 1, 1000, 0, 300>>, 0>>,
    <<<<1850000, 2100000, 1, 1000, 0, 900>>, 5>>,
    <<<<1850000, 2100000, 1, 1000, 45, 300>>, 0>>,
    <<<<1850000, 2100000, 1, 1000, 45, 900>>, 5>>,
    <<<<1850000, 2100000, 35, 365, 0, 300>>, 93758>>,
    <<<<1850000, 2100000, 35, 365, 0, 900>>, 376208>>,
    <<<<1850000, 2100000, 35, 365, 45, 300>>, 101773>>,
    <<<<1850000, 2100000, 35, 365, 45, 900>>, 382099>>,
    <<<<1850000, 2150000, 35, 365, 45, 300>>, 63654>>,
    <<<<1850000, 2200000, 35, 365, 45, 300>>, 38175>>,
    <<<<1850000, 2250000, 35, 365, 45, 300>>, 21995>>,
    <<<<1850000, 2300000, 35, 365, 45, 300>>, 12200>>,
    <<<<1850000, 2350000, 35, 365, 45, 300>>, 6527>>,
    <<<<1850000, 2400000, 35, 365, 45, 300>>, 3375>>,
    <<<<1900000, 1900000, 35, 365, 45, 900>>, 561523>>,
    <<<<1900000, 1950000, 35, 365, 45, 900>>, 524570>>,
    <<<<1900000, 2000000, 35, 365, 45, 900>>, 488346>>,
    <<<<1900000, 2050000, 35, 365, 45, 900>>, 453106>>,
    <<<<1900000, 2100000, 35, 365, 45, 900>>, 419066>>,
    <<<<1900000, 2150000, 35, 365, 45, 900>>, 386400>>,
    <<<<1900000, 2200000, 35, 365, 45, 900>>, 355243>>,
    <<<<1900000, 2250000, 35, 365, 45, 900>>, 325692>>,
    <<<<1900000, 2300000, 35, 365, 45, 900>>, 297812>>,
    <<<<1900000, 2350000, 35, 365, 45, 900>>, 271637>>,
    <<<<1900000, 2400000, 35, 365, 45, 900>>, 247173>>,
    <<<<1900000, 2450000, 35, 365, 45, 900>>, 224406>>,
    <<<<2000000, 1900000, 1, 1000, 0, 300>>, 1000000>>,
    <<<<2000000, 1900000, 1, 1000, 0, 900>>, 965353>>,
    <<<<2000000, 1900000, 1, 1000, 45, 300>>, 1000000>>,
    <<<<2000000, 1900000, 1, 1000, 45, 900>>, 965474>>,
    <<<<2000000, 1900000, 35, 365, 0, 300>>, 725278>>,
    <<<<2000000, 1900000, 35, 365, 0, 900>>, 626802>>,
    <<<<2000000, 1900000, 35, 365, 45, 300>>, 740550>>,
    <<<<2000000, 1900000, 35, 365, 45, 900>>, 632649>>,
    <<<<2000000, 2000000, 1, 1000, 0, 300>>, 501892>>,
    <<<<2000000, 2000000, 1, 1000, 0, 900>>, 505677>>,
    <<<<2000000, 2000000, 1, 1000, 45, 300>>, 503785>>,
    <<<<2000000, 2000000, 1, 1000, 45, 900>>, 506308>>,
    <<<<2000000, 2000000, 35, 365, 0, 300>>, 518524>>,
    <<<<2000000, 2000000, 35, 365, 0, 900>>, 555412>>,
    <<<<2000000, 2000000, 35, 365, 45, 100>>, 561523>>,
    <<<<2000000, 2000000, 35, 365, 45, 300>>, 537008>>,
    <<<<2000000, 2000000, 35, 365, 45, 900>>, 561523>>,
    <<<<2000000, 2050000, 35, 365, 45, 100>>, 260250>>,
    <<<<2000000, 2050000, 35, 365, 45, 300>>, 431364>>,
    <<<<2000000, 2100000, 1, 1000, 0, 300>>, 0>>,
    <<<<2000000, 2100000, 1, 1000, 0, 900>>, 44558>>,
    <<<<2000000, 2100000, 1, 1000, 45, 300>>, 0>>,
    <<<<2000000, 2100000, 1, 1000, 45, 900>>, 44707>>,
    <<<<2000000, 2100000, 35, 365, 0, 300>>, 316059>>,
    <<<<2000000, 2100000, 35, 365, 0, 900>>, 485753>>,
    <<<<2000000, 2100000, 35, 365, 45, 100>>, 77693>>,
    <<<<2000000, 2100000, 35, 365, 45, 300>>, 332762>>,
    <<<<2000000, 2100000, 35, 365, 45, 900>>, 491928>>,
    <<<<2000000, 2150000, 35, 365, 45, 100>>, 14605>>,
    <<<<2000000, 2150000, 35, 365, 45, 300>>, 246485>>,
    <<<<2000000, 2200000, 35, 365, 45, 100>>, 1733>>,
    <<<<2000000, 2200000, 35, 365, 45, 300>>, 175394>>,
    <<<<2000000, 2250000, 35, 365, 45, 100>>, 132>>,
    <<<<2000000, 2250000, 35, 365, 45, 300>>, 120004>>,
    <<<<2000000, 2300000, 35, 365, 45, 100>>, 7>>,
    <<<<2000000, 2300000, 35, 365, 45, 300>>, 79040>>,
    <<<<2000000, 2350000, 35, 365, 45, 100>>, 0>>,
    <<<<2000000, 2350000, 35, 365, 45, 300>>, 50185>>,
    <<<<2000000, 2400000, 35, 365, 45, 100>>, 0>>,
    <<<<2000000, 2400000, 35, 365, 45, 300>>, 30763>>,
    <<<<2000000, 2450000, 35, 365, 45, 100>>, 0>>,
    <<<<2000000, 2450000, 35, 365, 45, 300>>, 18235>>,
    <<<<2000000, 2500000, 35, 365, 45, 100>>, 0>>,
    <<<<2000000, 2500000, 35, 365, 45, 300>>, 10469>>,
    <<<<2000000, 2550000, 35, 365, 45, 100>>, 0>>,
    <<<<2000000, 2550000, 35, 365, 45, 300>>, 5830>>,
    <<<<2400000, 2400000, 35, 365, 45, 300>>, 537008>>,
    <<<<2400000, 2450000, 35, 365, 45, 300>>, 448657>>,
    <<<<2400000, 2500000, 35, 365, 45, 300>>, 364473>>,
    <<<<2400000, 2550000, 35, 365, 45, 300>>, 287845>>,
    <<<<2400000, 2600000, 35, 365, 45, 300>>, 221031>>,
    <<<<2400000, 2650000, 35, 365, 45, 300>>, 165088>>,
    <<<<2400000, 2700000, 35, 365, 45, 300>>, 120004>>,
    <<<<2400000, 2750000, 35, 365, 45, 300>>, 84956>>,
    <<<<2400000, 2800000, 35, 365, 45, 300>>, 58622>>,
    <<<<2400000, 2850000, 35, 365, 45, 300>>, 39461>>,
    <<<<2400000, 2900000, 35, 365, 45, 300>>, 25937>>,
    <<<<2400000, 2950000, 35, 365, 45, 300>>, 16660>>,
    <<<<2400000, 3000000, 35, 365, 45, 300>>, 10469>>,
    <<<<2400000, 3050000, 35, 365, 45, 300>>, 6440>>,
    <<<<2400000, 3100000, 35, 365, 45, 300>>, 3883>> }
CallDeltaTable == [k \in {row[1] : row \in CallDeltaRows} |-> (CHOOSE row \in CallDeltaRows : row[1] = k)[2]]

BsmRows ==
  { <<<<1850000, 1900000, 35, 365, 0, -100, "call">>, <<-25000, 500000, -696387, 3265, 22854, 9110>>>>,
    <<<<1850000, 1900000, 35, 365, 0, -100, "put">>, <<25000, -500000, -696387, 3265, 22854, -9110>>>>,
    <<<<1850000, 1900000, 35, 365, 0, 0, "call">>, <<-25000, 500000, 2000000000, 0, 22854, 9110>>>>,
    <<<<1850000, 1900000, 35, 365, 0, 0, "put">>, <<25000, -500000, 2000000000, 0, 22854, -9110>>>>,
    <<<<1850000, 1900000, 35, 365, 0, 300, "call">>, <<47305, 404925, 225506, -9515, 22202, 6730>>>>,
    <<<<1850000, 1900000, 35, 365, 0, 300, "put">>, <<97305, -595075, 225506, -9515, 22202, -11490>>>>,
    <<<<1850000, 1900000, 35, 365, 0, 900, "call">>, <<183741, 517412, 77303, -29356, 22833, 7417>>>>,
    <<<<1850000, 1900000, 35, 365, 0, 900, "put">>, <<233741, -482588, 77303, -29356, 22833, -10802>>>>,
    <<<<1850000, 1900000, 35, 365, 45, -100, "call">>, <<-20910, 500000, -696387, 2099, 22854, 9070>>>>,
    <<<<1850000, 1900000, 35, 365, 45, -100, "put">>, <<20910, -500000, -696387, 4431, 22854, -9070>>>>,
    <<<<1850000, 1900000, 35, 365, 45, 0, "call">>, <<-20910, 500000, 2000000000, -1166, 22854, 9070>>>>,
    <<<<1850000, 1900000, 35, 365, 45, 0, "put">>, <<20910, -500000, 2000000000, 1166, 22854, -9070>>>>,
    <<<<1850000, 1900000, 35, 365, 45, 300, "call">>, <<50399, 423021, 227794, -10515, 22428, 7021>>>>,
    <<<<1850000, 1900000, 35, 365, 45, 300, "put">>, <<92218, -576979, 227794, -8182, 22428, -11120>>>>,
    <<<<1850000, 1900000, 35, 365, 45, 900, "call">>, <<187096, 523580, 77241, -30296, 22814, 7494>>>>,
    <<<<1850000, 1900000, 35, 365, 45, 900, "put">>, <<228915, -476420, 77241, -27964, 22814, -10647>>>>,
    <<<<1850000, 1900000, 1, 1000, 0, -100, "call">>, <<-25000, 500000, -6819277, 31971, 2334, 95>>>>,
    <<<<1850000, 1900000, 1, 1000, 0, -100, "put">>, <<25000, -500000, -6819277, 31971, 2334, -95>>>>,
    <<<<1850000, 1900000, 1, 1000, 0, 0, "call">>, <<-25000, 500000, 2000000000, 0, 2334, 95>>>>,
    <<<<1850000, 1900000, 1, 1000, 0, 0, "put">>, <<25000, -500000, 2000000000, 0, 2334, -95>>>>,
    <<<<1850000, 1900000, 1, 1000, 0, 300, "call">>, <<13, 2505, 44307, -1870, 45, 0>>>>,
    <<<<1850000, 1900000, 1, 1000, 0, 300, "put">>, <<50013, -997495, 44307, -1870, 45, -190>>>>,
    <<<<1850000, 1900000, 1, 1000, 0, 900, "call">>, <<5005, 178057, 494975, -187970, 1525, 32>>>>,
    <<<<1850000, 1900000, 1, 1000, 0, 900, "put">>, <<55005, -821943, 494975, -187970, 1525, -158>>>>,
    <<<<1850000, 1900000, 1, 1000, 45, -100, "call">>, <<-24957, 500000, -6819277, 30800, 2334, 95>>>>,
    <<<<1850000, 1900000, 1, 1000, 45, -100, "put">>, <<24957, -500000, -6819277, 33142, 2334, -95>>>>,
    <<<<1850000, 1900000, 1, 1000, 45, 0, "call">>, <<-24957, 500000, 2000000000, -1171, 2334, 95>>>>,
    <<<<1850000, 1900000, 1, 1000, 45, 0, "put">>, <<24957, -500000, 2000000000, 1171, 2334, -95>>>>,
    <<<<1850000, 1900000, 1, 1000, 45, 300, "call">>, <<13, 2543, 44900, -1900, 46, 0>>>>,
    <<<<1850000, 1900000, 1, 1000, 45, 300, "put">>, <<49928, -997457, 44900, 442, 46, -190>>>>,
    <<<<1850000, 1900000, 1, 1000, 45, 900, "call">>, <<5019, 178469, 495697, -188645, 1527, 33>>>>,
    <<<<1850000, 1900000, 1, 1000, 45, 900, "put">>, <<54934, -821531, 495697, -186303, 1527, -157>>>>,
    <<<<1850000, 2000000, 35, 365, 0, -100, "call">>, <<-75000, 500000, -696387, 3265, 22854, 9589>>>>,
    <<<<1850000, 2000000, 35, 365, 0, -100, "put">>, <<75000, -500000, -696387, 3265, 22854, -9589>>>>,
    <<<<1850000, 2000000, 35, 365, 0, 0, "call">>, <<-75000, 500000, 2000000000, 0, 22854, 9589>>>>,
    <<<<1850000, 2000000, 35, 365, 0, 0, "put">>, <<75000, -500000, 2000000000, 0, 22854, -9589>>>>,
    <<<<1850000, 2000000, 35, 365, 0, 300, "call">>, <<20022, 213958, 169535, -7154, 16692, 3604>>>>,
    <<<<1850000, 2000000, 35, 365, 0, 300, "put">>, <<170022, -786042, 169535, -7154, 16692, -15575>>>>,
    <<<<1850000, 2000000, 35, 365, 0, 900, "call">>, <<146572, 444176, 76618, -29096, 22630, 6474>>>>,
    <<<<1850000, 2000000, 35, 365, 0, 900, "put">>, <<296572, -555824, 76618, -29096, 22630, -12704>>>>,
    <<<<1850000, 2000000, 35, 365, 45, -100, "call">>, <<-70694, 500000, -696387, 2037, 22854, 9548>>>>,
    <<<<1850000, 2000000, 35, 365, 45, -100, "put">>, <<70694, -500000, -696387, 4492, 22854, -9548>>>>,
    <<<<1850000, 2000000, 35, 365, 45, 0, "call">>, <<-70694, 500000, 2000000000, -1228, 22854, 9548>>>>,
    <<<<1850000, 2000000, 35, 365, 45, 0, "put">>, <<70694, -500000, 2000000000, 1228, 22854, -9548>>>>,
    <<<<1850000, 2000000, 35, 365, 45, 300, "call">>, <<21695, 227739, 175704, -7907, 17299, 3832>>>>,
    <<<<1850000, 2000000, 35, 365, 45, 300, "put">>, <<163083, -772261, 175704, -5451, 17299, -15264>>>>,
    <<<<1850000, 2000000, 35, 365, 45, 900, "call">>, <<149503, 450299, 76775, -29999, 22677, 6555>>>>,
    <<<<1850000, 2000000, 35, 365, 45, 900, "put">>, <<290892, -549701, 76775, -27543, 22677, -12541>>>>,
    <<<<1850000, 2000000, 1, 1000, 0, -100, "call">>, <<-75000, 500000, -6819277, 31971, 2334, 100>>>>,
    <<<<1850000, 2000000, 1, 1000, 0, -100, "put">>, <<75000, -500000, -6819277, 31971, 2334, -100>>>>,
    <<<<1850000, 2000000, 1, 1000, 0, 0, "call">>, <<-75000, 500000, 2000000000, 0, 2334, 100>>>>,
    <<<<1850000, 2000000, 1, 1000, 0, 0, "put">>, <<75000, -500000, 2000000000, 0, 2334, -100>>>>,
    <<<<1850000, 2000000, 1, 1000, 0, 300, "call">>, <<0, 0, 0, 0, 0, 0>>>>,
    <<<<1850000, 2000000, 1, 1000, 0, 300, "put">>, <<150000, -1000000, 0, 0, 0, -200>>>>,
    <<<<1850000, 2000000, 1, 1000, 0, 900, "call">>, <<51, 3214, 18491, -7022, 57, 1>>>>,
    <<<<1850000, 2000000, 1, 1000, 0, 900, "put">>, <<150051, -996786, 18491, -7022, 57, -199>>>>,
    <<<<1850000, 2000000, 1, 1000, 45, -100, "call">>, <<-74955, 500000, -6819277, 30738, 2334, 100>>>>,
    <<<<1850000, 2000000, 1, 1000, 45, -100, "put">>, <<74955, -500000, -6819277, 33204, 2334, -100>>>>,
    <<<<1850000, 2000000, 1, 1000, 45, 0, "call">>, <<-74955, 500000, 2000000000, -1233, 2334, 100>>>>,
    <<<<1850000, 2000000, 1, 1000, 45, 0, "put">>, <<74955, -500000, 2000000000, 1233, 2334, -100>>>>,
    <<<<1850000, 2000000, 1, 1000, 45, 300, "call">>, <<0, 0, 0, 0, 0, 0>>>>,
    <<<<1850000, 2000000, 1, 1000, 45, 300, "put">>, <<149910, -1000000, 0, 2466, 0, -200>>>>,
    <<<<1850000, 2000000, 1, 1000, 45, 900, "call">>, <<51, 3230, 18571, -7060, 57, 1>>>>,
    <<<<1850000, 2000000, 1, 1000, 45, 900, "put">>, <<149961, -996770, 18571, -4594, 57, -199>>>>,
    <<<<1850000, 2100000, 35, 365, 0, -100, "call">>, <<-125000, 500000, -696387, 3265, 22854, 10068>>>>,
    <<<<1850000, 2100000, 35, 365, 0, -100, "put">>, <<125000, -500000, -696387, 3265, 22854, -10068>>>>,
    <<<<1850000, 2100000, 35, 365, 0, 0, "call">>, <<-125000, 500000, 2000000000, 0, 22854, 10068>>>>,
    <<<<1850000, 2100000, 35, 365, 0, 0, "put">>, <<125000, -500000, 2000000000, 0, 22854, -10068>>>>,
    <<<<1850000, 2100000, 35, 365, 0, 300, "call">>, <<7253, 93758, 97396, -4110, 9589, 1594>>>>,
    <<<<1850000, 2100000, 35, 365, 0, 300, "put">>, <<257253, -906242, 97396, -4110, 9589, -18543>>>>,
    <<<<1850000, 2100000, 35, 365, 0, 900, "call">>, <<115953, 376208, 73621, -27958, 21745, 5562>>>>,
    <<<<1850000, 2100000, 35, 365, 0, 900, "put">>, <<365953, -623792, 73621, -27958, 21745, -14575>>>>,
    <<<<1850000, 2100000, 35, 365, 45, -100, "call">>, <<-120479, 500000, -696387, 1976, 22854, 10025>>>>,
    <<<<1850000, 2100000, 35, 365, 45, -100, "put">>, <<120479, -500000, -696387, 4554, 22854, -10025>>>>,
    <<<<1850000, 2100000, 35, 365, 45, 0, "call">>, <<-120479, 500000, 2000000000, -1289, 22854, 10025>>>>,
    <<<<1850000, 2100000, 35, 365, 45, 0, "put">>, <<120479, -500000, 2000000000, 1289, 22854, -10025>>>>,
    <<<<1850000, 2100000, 35, 365, 45, 300, "call">>, <<8000, 101773, 103433, -4587, 10184, 1729>>>>,
    <<<<1850000, 2100000, 35, 365, 45, 300, "put">>, <<248958, -898227, 103433, -2009, 10184, -18322>>>>,
    <<<<1850000, 2100000, 35, 365, 45, 900, "call">>, <<118474, 382099, 73972, -28817, 21849, 5642>>>>,
    <<<<1850000, 2100000, 35, 365, 45, 900, "put">>, <<359432, -617901, 73972, -26239, 21849, -14408>>>>,
    <<<<1850000, 2100000, 1, 1000, 0, -100, "call">>, <<-125000, 500000, -6819277, 31971, 2334, 105>>>>,
    <<<<1850000, 2100000, 1, 1000, 0, -100, "put">>, <<125000, -500000, -6819277, 31971, 2334, -105>>>>,
    <<<<1850000, 2100000, 1, 1000, 0, 0, "call">>, <<-125000, 500000, 2000000000, 0, 2334, 105>>>>,
    <<<<1850000, 2100000, 1, 1000, 0, 0, "put">>, <<125000, -500000, 2000000000, 0, 2334, -105>>>>,
    <<<<1850000, 2100000, 1, 1000, 0, 300, "call">>, <<0, 0, 0, 0, 0, 0>>>>,
    <<<<1850000, 2100000, 1, 1000, 0, 300, "put">>, <<250000, -1000000, 0, 0, 0, -210>>>>,
    <<<<1850000, 2100000, 1, 1000, 0, 900, "call">>, <<0, 5, 40, -15, 0, 0>>>>,
    <<<<1850000, 2100000, 1, 1000, 0, 900, "put">>, <<250000, -999995, 40, -15, 0, -210>>>>,
    <<<<1850000, 2100000, 1, 1000, 45, -100, "call">>, <<-124953, 500000, -6819277, 30677, 2334, 105>>>>,
    <<<<1850000, 2100000, 1, 1000, 45, -100, "put">>, <<124953, -500000, -6819277, 33266, 2334, -105>>>>,
    <<<<1850000, 2100000, 1, 1000, 45, 0, "call">>, <<-124953, 500000, 2000000000, -1294, 2334, 105>>>>,
    <<<<1850000, 2100000, 1, 1000, 45, 0, "put">>, <<124953, -500000, 2000000000, 1294, 2334, -105>>>>,
    <<<<1850000, 2100000, 1, 1000, 45, 300, "call">>, <<0, 0, 0, 0, 0, 0>>>>,
    <<<<1850000, 2100000, 1, 1000, 45, 300, "put">>, <<249906, -1000000, 0, 2589, 0, -210>>>>,
    <<<<1850000, 2100000, 1, 1000, 45, 900, "call">>, <<0, 5, 40, -15, 0, 0>>>>,
    <<<<1850000, 2100000, 1, 1000, 45, 900, "put">>, <<249906, -999995, 40, 2574, 0, -210>>>>,
    <<<<2000000, 1900000, 35, 365, 0, -100, "call">>, <<50000, 500000, -644158, 3530, 24707, 9110>>>>,
    <<<<2000000, 1900000, 35, 365, 0, -100, "put">>, <<-50000, -500000, -644158, 3530, 24707, -9110>>>>,
    <<<<2000000, 1900000, 35, 365, 0, 0, "call">>, <<50000, 500000, 2000000000, 0, 24707, 9110>>>>,
    <<<<2000000, 1900000, 35, 365, 0, 0, "put">>, <<-50000, -500000, 2000000000, 0, 24707, -9110>>>>,
    <<<<2000000, 1900000, 35, 365, 0, 300, "call">>, <<132973, 725278, 179500, -8852, 20655, 12634>>>>,
    <<<<2000000, 1900000, 35, 365, 0, 300, "put">>, <<32973, -274722, 179500, -8852, 20655, -5585>>>>,
    <<<<2000000, 1900000, 35, 365, 0, 900, "call">>, <<269733, 626802, 67927, -30148, 23449, 9434>>>>,
    <<<<2000000, 1900000, 35, 365, 0, 900, "put">>, <<169733, -373198, 67927, -30148, 23449, -8785>>>>,
    <<<<2000000, 1900000, 35, 365, 45, -100, "call">>, <<54090, 500000, -644158, 2363, 24707, 9070>>>>,
    <<<<2000000, 1900000, 35, 365, 45, -100, "put">>, <<-54090, -500000, -644158, 4696, 24707, -9070>>>>,
    <<<<2000000, 1900000, 35, 365, 45, 0, "call">>, <<54090, 500000, 2000000000, -1166, 24707, 9070>>>>,
    <<<<2000000, 1900000, 35, 365, 45, 0, "put">>, <<-54090, -500000, 2000000000, 1166, 24707, -9070>>>>,
    <<<<2000000, 1900000, 35, 365, 45, 300, "call">>, <<138713, 740550, 174390, -10255, 20067, 12872>>>>,
    <<<<2000000, 1900000, 35, 365, 45, 300, "put">>, <<30532, -259450, 174390, -7923, 20067, -5269>>>>,
    <<<<2000000, 1900000, 35, 365, 45, 900, "call">>, <<273995, 632649, 67579, -31216, 23329, 9506>>>>,
    <<<<2000000, 1900000, 35, 365, 45, 900, "put">>, <<165814, -367351, 67579, -28884, 23329, -8635>>>>,
    <<<<2000000, 1900000, 1, 1000, 0, -100, "call">>, <<50000, 500000, -6307831, 34563, 2523, 95>>>>,
    <<<<2000000, 1900000, 1, 1000, 0, -100, "put">>, <<-50000, -500000, -6307831, 34563, 2523, -95>>>>,
    <<<<2000000, 1900000, 1, 1000, 0, 0, "call">>, <<50000, 500000, 2000000000, 0, 2523, 95>>>>,
    <<<<2000000, 1900000, 1, 1000, 0, 0, "put">>, <<-50000, -500000, 2000000000, 0, 2523, -95>>>>,
    <<<<2000000, 1900000, 1, 1000, 0, 300, "call">>, <<100000, 1000000, 1, 0, 0, 190>>>>,
    <<<<2000000, 1900000, 1, 1000, 0, 300, "put">>, <<0, 0, 1, 0, 0, 0>>>>,
    <<<<2000000, 1900000, 1, 1000, 0, 900, "call">>, <<100787, 965353, 134626, -59752, 485, 183>>>>,
    <<<<2000000, 1900000, 1, 1000, 0, 900, "put">>, <<787, -34647, 134626, -59752, 485, -7>>>>,
    <<<<2000000, 1900000, 1, 1000, 45, -100, "call">>, <<50043, 500000, -6307831, 33392, 2523, 95>>>>,
    <<<<2000000, 1900000, 1, 1000, 45, -100, "put">>, <<-50043, -500000, -6307831, 35735, 2523, -95>>>>,
    <<<<2000000, 1900000, 1, 1000, 45, 0, "call">>, <<50043, 500000, 2000000000, -1171, 2523, 95>>>>,
    <<<<2000000, 1900000, 1, 1000, 45, 0, "put">>, <<-50043, -500000, 2000000000, 1171, 2523, -95>>>>,
    <<<<2000000, 1900000, 1, 1000, 45, 300, "call">>, <<100085, 1000000, 1, -2342, 0, 190>>>>,
    <<<<2000000, 1900000, 1, 1000, 45, 300, "put">>, <<0, 0, 1, 0, 0, 0>>>>,
    <<<<2000000, 1900000, 1, 1000, 45, 900, "call">>, <<100870, 965474, 134240, -61837, 483, 183>>>>,
    <<<<2000000, 1900000, 1, 1000, 45, 900, "put">>, <<784, -34526, 134240, -59494, 483, -7>>>>,
    <<<<2000000, 2000000, 35, 365, 0, -100, "call">>, <<0, 500000, -644158, 3530, 24707, 9589>>>>,
    <<<<2000000, 2000000, 35, 365, 0, -100, "put">>, <<0, -500000, -644158, 3530, 24707, -9589>>>>,
    <<<<2000000, 2000000, 35, 365, 0, 0, "call">>, <<0, 500000, 2000000000, 0, 24707, 9589>>>>,
    <<<<2000000, 2000000, 35, 365, 0, 0, "put">>, <<0, -500000, 2000000000, 0, 24707, -9589>>>>,
    <<<<2000000, 2000000, 35, 365, 0, 300, "call">>, <<74096, 518524, 214488, -10577, 24681, 9234>>>>,
    <<<<2000000, 2000000, 35, 365, 0, 300, "put">>, <<74096, -481476, 214488, -10577, 24681, -9944>>>>,
    <<<<2000000, 2000000, 35, 365, 0, 900, "call">>, <<221649, 555412, 70882, -31460, 24469, 8526>>>>,
    <<<<2000000, 2000000, 35, 365, 0, 900, "put">>, <<221649, -444588, 70882, -31460, 24469, -10652>>>>,
    <<<<2000000, 2000000, 35, 365, 45, -100, "call">>, <<4306, 500000, -644158, 2302, 24707, 9548>>>>,
    <<<<2000000, 2000000, 35, 365, 45, -100, "put">>, <<-4306, -500000, -644158, 4757, 24707, -9548>>>>,
    <<<<2000000, 2000000, 35, 365, 45, 0, "call">>, <<4306, 500000, 2000000000, -1228, 24707, 9548>>>>,
    <<<<2000000, 2000000, 35, 365, 45, 0, "put">>, <<-4306, -500000, 2000000000, 1228, 24707, -9548>>>>,
    <<<<2000000, 2000000, 35, 365, 45, 300, "call">>, <<78322, 537008, 213795, -11771, 24601, 9548>>>>,
    <<<<2000000, 2000000, 35, 365, 45, 300, "put">>, <<69710, -462992, 213795, -9316, 24601, -9548>>>>,
    <<<<2000000, 2000000, 35, 365, 45, 900, "call">>, <<225504, 561523, 70720, -32495, 24413, 8607>>>>,
    <<<<2000000, 2000000, 35, 365, 45, 900, "put">>, <<216893, -438477, 70720, -30040, 24413, -10489>>>>,
    <<<<2000000, 2000000, 1, 1000, 0, -100, "call">>, <<0, 500000, -6307831, 34563, 2523, 100>>>>,
    <<<<2000000, 2000000, 1, 1000, 0, -100, "put">>, <<0, -500000, -6307831, 34563, 2523, -100>>>>,
    <<<<2000000, 2000000, 1, 1000, 0, 0, "call">>, <<0, 500000, 2000000000, 0, 2523, 100>>>>,
    <<<<2000000, 2000000, 1, 1000, 0, 0, "put">>, <<0, -500000, 2000000000, 0, 2523, -100>>>>,
    <<<<2000000, 2000000, 1, 1000, 0, 300, "call">>, <<7569, 501892, 2102587, -103689, 2523, 100>>>>,
    <<<<2000000, 2000000, 1, 1000, 0, 300, "put">>, <<7569, -498108, 2102587, -103689, 2523, -100>>>>,
    <<<<2000000, 2000000, 1, 1000, 0, 900, "call">>, <<22707, 505677, 700799, -311040, 2523, 99>>>>,
    <<<<2000000, 2000000, 1, 1000, 0, 900, "put">>, <<22707, -494323, 700799, -311040, 2523, -101>>>>,
    <<<<2000000, 2000000, 1, 1000, 45, -100, "call">>, <<45, 500000, -6307831, 33331, 2523, 100>>>>,
    <<<<2000000, 2000000, 1, 1000, 45, -100, "put">>, <<-45, -500000, -6307831, 35796, 2523, -100>>>>,
    <<<<2000000, 2000000, 1, 1000, 45, 0, "call">>, <<45, 500000, 2000000000, -1233, 2523, 100>>>>,
    <<<<2000000, 2000000, 1, 1000, 45, 0, "put">>, <<-45, -500000, 2000000000, 1233, 2523, -100>>>>,
    <<<<2000000, 2000000, 1, 1000, 45, 300, "call">>, <<7614, 503785, 2102516, -104919, 2523, 100>>>>,
    <<<<2000000, 2000000, 1, 1000, 45, 300, "put">>, <<7524, -496215, 2102516, -102453, 2523, -100>>>>,
    <<<<2000000, 2000000, 1, 1000, 45, 900, "call">>, <<22752, 506308, 700783, -312253, 2523, 99>>>>,
    <<<<2000000, 2000000, 1, 1000, 45, 900, "put">>, <<22662, -493692, 700783, -309787, 2523, -101>>>>,
    <<<<2000000, 2100000, 35, 365, 0, -100, "call">>, <<-50000, 500000, -644158, 3530, 24707, 10068>>>>,
    <<<<2000000, 2100000, 35, 365, 0, -100, "put">>, <<50000, -500000, -644158, 3530, 24707, -10068>>>>,
    <<<<2000000, 2100000, 35, 365, 0, 0, "call">>, <<-50000, 500000, 2000000000, 0, 24707, 10068>>>>,
    <<<<2000000, 2100000, 35, 365, 0, 0, "put">>, <<50000, -500000, 2000000000, 0, 24707, -10068>>>>,
    <<<<2000000, 2100000, 35, 365, 0, 300, "call">>, <<36178, 316059, 191470, -9442, 22032, 5714>>>>,
    <<<<2000000, 2100000, 35, 365, 0, 300, "put">>, <<136178, -683941, 191470, -9442, 22032, -14423>>>>,
    <<<<2000000, 2100000, 35, 365, 0, 900, "call">>, <<180640, 485753, 71527, -31746, 24692, 7584>>>>,
    <<<<2000000, 2100000, 35, 365, 0, 900, "put">>, <<280640, -514247, 71527, -31746, 24692, -12553>>>>,
    <<<<2000000, 2100000, 35, 365, 45, -100, "call">>, <<-45479, 500000, -644158, 2241, 24707, 10025>>>>,
    <<<<2000000, 2100000, 35, 365, 45, -100, "put">>, <<45479, -500000, -644158, 4819, 24707, -10025>>>>,
    <<<<2000000, 2100000, 35, 365, 45, 0, "call">>, <<-45479, 500000, 2000000000, -1289, 24707, 10025>>>>,
    <<<<2000000, 2100000, 35, 365, 45, 0, "put">>, <<45479, -500000, 2000000000, 1289, 24707, -10025>>>>,
    <<<<2000000, 2100000, 35, 365, 45, 300, "call">>, <<38816, 332762, 195565, -10417, 22503, 6010>>>>,
    <<<<2000000, 2100000, 35, 365, 45, 300, "put">>, <<129774, -667238, 195565, -7839, 22503, -14041>>>>,
    <<<<2000000, 2100000, 35, 365, 45, 900, "call">>, <<184072, 491928, 71558, -32746, 24702, 7669>>>>,
    <<<<2000000, 2100000, 35, 365, 45, 900, "put">>, <<275030, -508072, 71558, -30168, 24702, -12381>>>>,
    <<<<2000000, 2100000, 1, 1000, 0, -100, "call">>, <<-50000, 500000, -6307831, 34563, 2523, 105>>>>,
    <<<<2000000, 2100000, 1, 1000, 0, -100, "put">>, <<50000, -500000, -6307831, 34563, 2523, -105>>>>,
    <<<<2000000, 2100000, 1, 1000, 0, 0, "call">>, <<-50000, 500000, 2000000000, 0, 2523, 105>>>>,
    <<<<2000000, 2100000, 1, 1000, 0, 0, "put">>, <<50000, -500000, 2000000000, 0, 2523, -105>>>>,
    <<<<2000000, 2100000, 1, 1000, 0, 300, "call">>, <<0, 0, 4, 0, 0, 0>>>>,
    <<<<2000000, 2100000, 1, 1000, 0, 300, "put">>, <<100000, -1000000, 4, 0, 0, -210>>>>,
    <<<<2000000, 2100000, 1, 1000, 0, 900, "call">>, <<1030, 44558, 165205, -73324, 595, 9>>>>,
    <<<<2000000, 2100000, 1, 1000, 0, 900, "put">>, <<101030, -955442, 165205, -73324, 595, -201>>>>,
    <<<<2000000, 2100000, 1, 1000, 45, -100, "call">>, <<-49953, 500000, -6307831, 33269, 2523, 105>>>>,
    <<<<2000000, 2100000, 1, 1000, 45, -100, "put">>, <<49953, -500000, -6307831, 35858, 2523, -105>>>>,
    <<<<2000000, 2100000, 1, 1000, 45, 0, "call">>, <<-49953, 500000, 2000000000, -1294, 2523, 105>>>>,
    <<<<2000000, 2100000, 1, 1000, 45, 0, "put">>, <<49953, -500000, 2000000000, 1294, 2523, -105>>>>,
    <<<<2000000, 2100000, 1, 1000, 45, 300, "call">>, <<0, 0, 4, 0, 0, 0>>>>,
    <<<<2000000, 2100000, 1, 1000, 45, 300, "put">>, <<99906, -1000000, 4, 2589, 0, -210>>>>,
    <<<<2000000, 2100000, 1, 1000, 45, 900, "call">>, <<1034, 44707, 165649, -73630, 596, 9>>>>,
    <<<<2000000, 2100000, 1, 1000, 45, 900, "put">>, <<100939, -955293, 165649, -71041, 596, -201>>>> }
BsmTable == [k \in {row[1] : row \in BsmRows} |-> (CHOOSE row \in BsmRows : row[1] = k)[2]]

DiscountRows ==
  { <<<<1900000, 35, 365, 0>>, 1900000>>,
    <<<<1900000, 35, 365, 45>>, 1891819>>,
    <<<<1900000, 1, 1000, 0>>, 1900000>>,
    <<<<1900000, 1, 1000, 45>>, 1899915>>,
    <<<<2000000, 35, 365, 0>>, 2000000>>,
    <<<<2000000, 35, 365, 45>>, 1991388>>,
    <<<<2000000, 1, 1000, 0>>, 2000000>>,
    <<<<2000000, 1, 1000, 45>>, 1999910>>,
    <<<<2100000, 35, 365, 0>>, 2100000>>,
    <<<<2100000, 35, 365, 45>>, 2090958>>,
    <<<<2100000, 1, 1000, 0>>, 2100000>>,
    <<<<2100000, 1, 1000, 45>>, 2099906>> }
DiscountTable == [k \in {row[1] : row \in DiscountRows} |-> (CHOOSE row \in DiscountRows : row[1] = k)[2]]

\*-- tables end

\* The degenerate branch without the floor at zero.
bs_put_price_NoFloor(S, K, T, r, sigma) ==
  IF T[1] <= 0 \/ sigma <= 0 THEN K - S
  ELSE PutPriceTable[<<S, K, T[1], T[2], r, sigma>>]

bs_put_price(S, K, T, r, sigma) ==
  IF T[1] <= 0 \/ sigma <= 0 THEN Max(K - S, 0)
  ELSE PutPriceTable[<<S, K, T[1], T[2], r, sigma>>]

\* A call priced with the put's formula.
bs_call_price_AsPut(S, K, T, r, sigma) ==
  IF T[1] <= 0 \/ sigma <= 0 THEN Max(K - S, 0)
  ELSE PutPriceTable[<<S, K, T[1], T[2], r, sigma>>]

bs_call_price(S, K, T, r, sigma) ==
  IF T[1] <= 0 \/ sigma <= 0 THEN Max(S - K, 0)
  ELSE CallPriceTable[<<S, K, T[1], T[2], r, sigma>>]

bs_put_delta(S, K, T, r, sigma) ==
  IF T[1] <= 0 \/ sigma <= 0 THEN (IF S < K THEN 0 - DeltaOne ELSE 0)
  ELSE PutDeltaTable[<<S, K, T[1], T[2], r, sigma>>]

bs_call_delta(S, K, T, r, sigma) ==
  IF T[1] <= 0 \/ sigma <= 0 THEN (IF S > K THEN DeltaOne ELSE 0)
  ELSE CallDeltaTable[<<S, K, T[1], T[2], r, sigma>>]

\* ------------------------------------------------- core pricing (bsm_price)
\* numpy's inf: norm.pdf returns a numpy float, so dividing it by 0.0 gives
\* inf (with a warning), not ZeroDivisionError.
Inf == 2000000000

\* BSMResult; price in 0.00001 dollar, delta and the other Greeks in millionths.
BSMResult(price, delta, gamma, theta, vega, rho) ==
  [price |-> price, delta |-> delta, gamma |-> gamma, theta |-> theta,
   vega |-> vega, rho |-> rho]

\* bsm_price: the branch "at expiration" for T <= 0; for T > 0 the values of
\* the formulas, where d1() and d2() return 0.0 when sigma <= 0.
bsm_price(S, K, T, r, sigma, option_type) ==
  IF T[1] <= 0
  THEN IF option_type = "call"
       THEN BSMResult(Max(S - K, 0), IF S > K THEN DeltaOne ELSE 0, 0, 0, 0, 0)
       ELSE BSMResult(Max(K - S, 0), IF S < K THEN 0 - DeltaOne ELSE 0, 0, 0, 0, 0)
  ELSE LET v == BsmTable[<<S, K, T[1], T[2], r, sigma, option_type>>]
       IN  BSMResult(v[1], v[2], v[3], v[4], v[5], v[6])

\* K * math.exp(-r * T), in 0.00001 dollar.
DiscountedStrike(K, T, r) == DiscountTable[<<K, T[1], T[2], r>>]

\* ---------------------------------------------------------- strike selection
Abs(x) == IF x < 0 THEN 0 - x ELSE x

\* len(np.arange(start, stop, step)) = ceil((stop - start) / step), at least 0.
ArangeLen(start, stop, step) ==
  IF stop <= start THEN 0 ELSE (stop - start + step - 1) \div step

\* np.argmin: the first index at which the least value occurs.
ArgMin(xs) ==
  CHOOSE i \in 1..Len(xs) :
    /\ \A j \in 1..Len(xs) : xs[i] <= xs[j]
    /\ \A j \in 1..(i - 1) : xs[j] > xs[i]

find_strike_for_delta(S, T, r, sigma, target_delta, option_type) ==
  LET step == HalfDollar
      start == IF option_type = "put" THEN (S * 70) \div 100 ELSE S
      stop == IF option_type = "put" THEN (S * 101) \div 100 ELSE (S * 130) \div 100
      n == ArangeLen(start, stop, step)
      strikes == [i \in 1..n |-> start + (i - 1) * step]
      deltas == [i \in 1..n |->
                   IF option_type = "put"
                   THEN Abs(bs_put_delta(S, strikes[i], T, r, sigma))
                   ELSE bs_call_delta(S, strikes[i], T, r, sigma)]
      diffs == [i \in 1..n |-> Abs(deltas[i] - target_delta)]
  IN  IF n = 0
      THEN RoundTo(IF option_type = "put" THEN (S * 90) \div 100 ELSE (S * 110) \div 100, Cent)
      ELSE RoundTo(strikes[ArgMin(diffs)] * 2, Dollar) \div 2

\* ------------------------------------------------------------------- Trade
\* x * 100, the shares of one contract: a per-share amount in 0.00001 dollar
\* becomes a money amount in 0.001 dollar, which is the same integer.
Times100(x) == x

Trade(strategy, entry_date, expiry_date, strike, option_type, premium, long_strike, long_premium) ==
  [strategy |-> strategy, entry_date |-> entry_date, expiry_date |-> expiry_date,
   strike |-> strike, option_type |-> option_type, premium |-> premium,
   contracts |-> 1, exit_date |-> None, exit_premium |-> None, pnl |-> None,
   reason |-> NoReason, long_strike |-> long_strike, long_premium |-> long_premium]

net_credit(t) ==
  IF t.long_premium # None
  THEN Times100(t.premium - t.long_premium) * t.contracts
  ELSE Times100(t.premium) * t.contracts

\* A close that records the entry date as the exit date.
CloseTrade_AtEntryDate(t, exit_date, exit_premium, pnl, reason) ==
  [t EXCEPT !.exit_date = t.entry_date, !.exit_premium = exit_premium,
            !.pnl = pnl, !.reason = reason]

\* The in-place assignment of a trade's exit fields at a close.
CloseTrade(t, exit_date, exit_premium, pnl, reason) ==
  [t EXCEPT !.exit_date = exit_date, !.exit_premium = exit_premium,
            !.pnl = pnl, !.reason = reason]

\* -------------------------------------------------------------- price bars
\* One row of the data frame: the day, the close, the rolling volatility
\* (NaN while warming up), the oscillator (NaN while warming up) and the
\* red-day flag.  gap is the number of calendar days since the previous row.
BarKinds ==
  { [gap |-> 1,  Close |-> 2000000, IV |-> NaN, RSI |-> NaN, RedDay |-> FALSE],
    [gap |-> 1,  Close |-> 2000000, IV |-> 300, RSI |-> 30,  RedDay |-> TRUE],
    [gap |-> 1,  Close |-> 2400000, IV |-> 300, RSI |-> 50,  RedDay |-> FALSE],
    [gap |-> 1,  Close |-> 1400000, IV |-> 300, RSI |-> 42,  RedDay |-> TRUE],
    [gap |-> 35, Close |-> 1850000, IV |-> 300, RSI |-> 50,  RedDay |-> FALSE],
    [gap |-> 35, Close |-> 2400000, IV |-> 300, RSI |-> 50,  RedDay |-> FALSE],
    [gap |-> 35, Close |-> 1900000, IV |-> 900, RSI |-> 50,  RedDay |-> FALSE],
    [gap |-> 1,  Close |-> 2000000, IV |-> 100, RSI |-> 30,  RedDay |-> TRUE] }

\* The rows of the wheel-only runs; run_wheel reads neither RSI nor RedDay.
WheelBarKinds ==
  { [gap |-> 1,  Close |-> 2000000, IV |-> NaN, RSI |-> NaN, RedDay |-> FALSE],
    [gap |-> 1,  Close |-> 2000000, IV |-> 300, RSI |-> 30,  RedDay |-> TRUE],
    [gap |-> 1,  Close |-> 1400000, IV |-> 300, RSI |-> 42,  RedDay |-> TRUE],
    [gap |-> 35, Close |-> 1850000, IV |-> 300, RSI |-> 50,  RedDay |-> FALSE],
    [gap |-> 35, Close |-> 2400000, IV |-> 300, RSI |-> 50,  RedDay |-> FALSE],
    [gap |-> 35, Close |-> 1900000, IV |-> 900, RSI |-> 50,  RedDay |-> FALSE] }

\* The lookback row fetched before the study window (still warming up).
BufferBar == [date |-> 0, Close |-> 2000000, IV |-> NaN, RSI |-> NaN, RedDay |-> FALSE]

RECURSIVE DateOf(_, _)
DateOf(kinds, i) == IF i = 0 THEN 0 ELSE DateOf(kinds, i - 1) + kinds[i].gap

Rows(kinds) ==
  [i \in 1..Len(kinds) |->
     [date |-> DateOf(kinds, i), Close |-> kinds[i].Close, IV |-> kinds[i].IV,
      RSI |-> kinds[i].RSI, RedDay |-> kinds[i].RedDay]]

InitialCashSet == {5000 * 1000}

StrategyNames == {"naked_put", "wheel", "put_credit_spread", "iron_condor"}
\* A dispatch that finds every name.
dispatch_Any == StrategyNames
\* The keys of the dispatch table of run().
dispatch == {"naked_put", "wheel", "put_credit_spread"}

\* ------------------------------------------------------------------- state
VARIABLES
  all_df,         \* self.all_df: the fetched history, lookback included
  df,             \* self.df: the rows of the study window
  initial_cash,   \* self.initial_cash
  cash,           \* self.cash
  trades,         \* self.trades: the closed positions
  equity_curve,   \* self.equity_curve
  pc,             \* "noobject", "idle", or the strategy whose loop is running
  i,              \* index in df of the next row of the running loop
  open_trades,    \* run_naked_put / run_put_credit_spread: open_trades
  max_positions,  \* run_naked_put: max_positions
  state,          \* run_wheel: state
  shares,         \* run_wheel: shares
  cost_basis,     \* run_wheel: cost_basis
  open_trade,     \* run_wheel: open_trade, <<>> for None or <<t>>
  opened,         \* history: number of Trade objects created so far
  run_start,      \* history: the strategy of the last dispatched run() and
                  \* cash, len(trades), len(equity_curve) when it started
  raised,         \* the exception the last call raised, or "none"
  call,           \* the last call of a pricing function: its name and arguments
  result          \* what the last run() returned, or <<>>

vars == <<all_df, df, initial_cash, cash, trades, equity_curve, pc, i,
          open_trades, max_positions, state, shares, cost_basis, open_trade,
          opened, run_start, raised, call, result>>

self_fields == <<all_df, df, initial_cash, cash, trades, equity_curve>>
locals == <<i, open_trades, max_positions, state, shares, cost_basis, open_trade>>

\* __init__ followed by _load_data: an empty fetch raises and no object
\* exists; otherwise the study window is the part of the history from start on.
InitFor(kindset, maxbars, cashset) ==
  /\ \E c \in cashset : initial_cash = c /\ cash = c
  /\ trades = <<>>
  /\ equity_curve = <<>>
  /\ \/ /\ all_df = <<>>
        /\ df = <<>>
        /\ raised = "ValueError: No data"
        /\ pc = "noobject"
     \/ /\ \E n \in 0..maxbars : \E kinds \in [1..n -> kindset] :
             /\ df = Rows(kinds)
             /\ all_df = <<BufferBar>> \o Rows(kinds)
        /\ raised = "none"
        /\ pc = "idle"
  /\ i = 0
  /\ open_trades = <<>>
  /\ max_positions = 0
  /\ state = "selling_puts"
  /\ shares = 0
  /\ cost_basis = 0
  /\ open_trade = <<>>
  /\ opened = 0
  /\ run_start = [strategy |-> "none", cash |-> cash, trades |-> 0, equity |-> 0]
  /\ call = [fn |-> "none"]
  /\ result = <<>>

InitWith(kindset, maxbars) == InitFor(kindset, maxbars, InitialCashSet)

Init == InitWith(BarKinds, MaxBars)
InitWheel == InitWith(WheelBarKinds, MaxBarsWheel)

\* ------------------------------------------------------------------ helpers
Append1(seq, x) == seq \o <<x>>

\* df.iloc[-1]
LastRow == df[Len(df)]

\* The volatility the end-of-run close uses: the last row's, or
\* self.all_df["IV"].dropna().iloc[-1] when that is NaN.
EndIV ==
  IF ~isnan(LastRow.IV) THEN LastRow.IV
  ELSE LET valid == {j \in 1..Len(all_df) : ~isnan(all_df[j].IV)}
           last == CHOOSE j \in valid : \A k \in valid : k <= j
       IN  all_df[last].IV

\* Twice df["Close"].median(): the middle close, or the sum of the two middle
\* closes of an even number of rows, each counted by rank.
SortedClose(k) ==
  CHOOSE c \in {df[j].Close : j \in 1..Len(df)} :
    /\ Cardinality({j \in 1..Len(df) : df[j].Close < c}) < k
    /\ Cardinality({j \in 1..Len(df) : df[j].Close <= c}) >= k

TwiceMedianClose ==
  LET n == Len(df)
  IN  IF n % 2 = 1 THEN 2 * SortedClose((n + 1) \div 2)
      ELSE SortedClose(n \div 2) + SortedClose(n \div 2 + 1)

\* ---------------------------------------------------------------- naked put
\* The body of the loop over open_trades for one trade t on row `row`:
\* acc carries cash, the closed list and still_open.
\* The exit loop with the expiry test ahead of the profit target and the
\* stop loss.
NakedPutManageOne_ExpiryFirst(t, row, acc) ==
  LET S == row.Close
      dte == t.expiry_date - row.date
      T == Years(dte)
      current_premium == bs_put_price(S, t.strike, T, risk_free, row.IV)
      intrinsic == Max(t.strike - S, 0)
      exit_value == IF dte <= 0 THEN intrinsic ELSE current_premium
      reason == IF dte <= 0
                THEN (IF intrinsic = 0 THEN "expired_otm" ELSE "expired_itm")
                ELSE IF 2 * current_premium <= t.premium THEN "profit_target_50pct"
                ELSE IF current_premium >= t.premium * 3 THEN "stop_loss_200pct"
                ELSE "open"
  IN  IF reason = "open" THEN [acc EXCEPT !.still_open = Append1(acc.still_open, t)]
      ELSE [cash |-> acc.cash - Times100(exit_value) * t.contracts,
            trades |-> Append1(acc.trades,
                         CloseTrade(t, row.date, exit_value,
                                    Times100(t.premium - exit_value) * t.contracts,
                                    reason)),
            still_open |-> acc.still_open]

\* The exit loop with the expiry test dte < 0: a position is kept through
\* its expiry day.
NakedPutManageOne_StrictExpiry(t, row, acc) ==
  LET S == row.Close
      dte == t.expiry_date - row.date
      current_premium == bs_put_price(S, t.strike, Years(dte), risk_free, row.IV)
      intrinsic == Max(t.strike - S, 0)
      exit_value == IF 2 * current_premium <= t.premium \/ current_premium >= t.premium * 3
                    THEN current_premium ELSE intrinsic
      reason == IF 2 * current_premium <= t.premium THEN "profit_target_50pct"
                ELSE IF current_premium >= t.premium * 3 THEN "stop_loss_200pct"
                ELSE IF dte < 0
                THEN (IF intrinsic = 0 THEN "expired_otm" ELSE "expired_itm")
                ELSE "open"
  IN  IF reason = "open" THEN [acc EXCEPT !.still_open = Append1(acc.still_open, t)]
      ELSE [cash |-> acc.cash - Times100(exit_value) * t.contracts,
            trades |-> Append1(acc.trades,
                         CloseTrade(t, row.date, exit_value,
                                    Times100(t.premium - exit_value) * t.contracts,
                                    reason)),
            still_open |-> acc.still_open]

NakedPutManageOne(t, row, acc) ==
  LET S == row.Close
      dte == t.expiry_date - row.date
      T == Years(dte)
      current_premium == bs_put_price(S, t.strike, T, risk_free, row.IV)
      intrinsic == Max(t.strike - S, 0)
  IN  IF 2 * current_premium <= t.premium
      THEN [cash |-> acc.cash - Times100(current_premium) * t.contracts,
            trades |-> Append1(acc.trades,
                         CloseTrade(t, row.date, current_premium,
                                    Times100(t.premium - current_premium) * t.contracts,
                                    "profit_target_50pct")),
            still_open |-> acc.still_open]
      ELSE IF current_premium >= t.premium * 3
      THEN [cash |-> acc.cash - Times100(current_premium) * t.contracts,
            trades |-> Append1(acc.trades,
                         CloseTrade(t, row.date, current_premium,
                                    Times100(t.premium - current_premium) * t.contracts,
                                    "stop_loss_200pct")),
            still_open |-> acc.still_open]
      ELSE IF dte <= 0
      THEN [cash |-> acc.cash - Times100(intrinsic) * t.contracts,
            trades |-> Append1(acc.trades,
                         CloseTrade(t, row.date, intrinsic,
                                    Times100(t.premium - intrinsic) * t.contracts,
                                    IF intrinsic = 0 THEN "expired_otm" ELSE "expired_itm")),
            still_open |-> acc.still_open]
      ELSE [acc EXCEPT !.still_open = Append1(acc.still_open, t)]

RECURSIVE NakedPutManage(_, _, _)
NakedPutManage(ts, row, acc) ==
  IF ts = <<>> THEN acc
  ELSE NakedPutManage(Tail(ts), row, NakedPutManageOne(Head(ts), row, acc))

\* The entry block: "enter" with the new trade, "reject" when a guard ends the
\* iteration with continue, "none" when the entry condition does not hold.
\* The entry block without the margin test.
NakedPutEntry_NoMargin(row, n_open, cash_now, cap) ==
  IF row.RedDay /\ row.RSI < 40 /\ n_open < cap
  THEN LET S == row.Close
           T == <<35, 365>>
           strike == find_strike_for_delta(S, T, risk_free, row.IV, 250000, "put")
           premium == bs_put_price(S, strike, T, risk_free, row.IV)
       IN  IF premium < 10000 THEN [kind |-> "reject"]
           ELSE [kind |-> "enter",
                 trade |-> Trade("naked_put", row.date, row.date + 35, strike,
                                 "put", RoundTo(premium, Cent), None, None)]
  ELSE [kind |-> "none"]

NakedPutEntry(row, n_open, cash_now, cap) ==
  IF row.RedDay /\ row.RSI < 40 /\ n_open < cap
  THEN LET S == row.Close
           target_dte == 35
           T == <<target_dte, 365>>
           strike == find_strike_for_delta(S, T, risk_free, row.IV, 250000, "put")
           otm_amount == Max(S - strike, 0)
           margin_req == Times100(Max(S \div 5 - otm_amount, strike \div 10))
           premium == bs_put_price(S, strike, T, risk_free, row.IV)
       IN  IF margin_req * 10 > cash_now * 8 THEN [kind |-> "reject"]
           ELSE IF premium < 10000 THEN [kind |-> "reject"]
           ELSE [kind |-> "enter",
                 trade |-> Trade("naked_put", row.date, row.date + target_dte, strike,
                                 "put", RoundTo(premium, Cent), None, None)]
  ELSE [kind |-> "none"]

\* The loop body that skips a row only when its volatility is undefined.
NakedPutBar_SkipOnIVOnly ==
  /\ call' = call
  /\ pc = "naked_put"
  /\ i <= Len(df)
  /\ LET row == df[i]
     IN  IF isnan(row.IV)
         THEN /\ equity_curve' = Append1(equity_curve, cash)
              /\ UNCHANGED <<cash, trades, open_trades, opened>>
         ELSE LET m == NakedPutManage(open_trades, row,
                         [cash |-> cash, trades |-> trades, still_open |-> <<>>])
                  e == NakedPutEntry(row, Len(m.still_open), m.cash, max_positions)
              IN  /\ trades' = m.trades
                  /\ IF e.kind = "enter"
                     THEN /\ cash' = m.cash + net_credit(e.trade)
                          /\ open_trades' = Append1(m.still_open, e.trade)
                          /\ opened' = opened + 1
                          /\ equity_curve' = Append1(equity_curve, cash')
                     ELSE /\ cash' = m.cash
                          /\ open_trades' = m.still_open
                          /\ opened' = opened
                          /\ equity_curve' = IF e.kind = "reject" THEN equity_curve
                                             ELSE Append1(equity_curve, cash')
  /\ i' = i + 1
  /\ UNCHANGED <<run_start, all_df, df, initial_cash, pc, max_positions, state, shares,
                 cost_basis, open_trade, raised, result>>

\* One iteration of the loop of run_naked_put.
NakedPutBar ==
  /\ call' = call
  /\ pc = "naked_put"
  /\ i <= Len(df)
  /\ LET row == df[i]
     IN  IF isnan(row.IV) \/ isnan(row.RSI)
         THEN /\ equity_curve' = Append1(equity_curve, cash)
              /\ UNCHANGED <<cash, trades, open_trades, opened>>
         ELSE LET m == NakedPutManage(open_trades, row,
                         [cash |-> cash, trades |-> trades, still_open |-> <<>>])
                  e == NakedPutEntry(row, Len(m.still_open), m.cash, max_positions)
              IN  /\ trades' = m.trades
                  /\ IF e.kind = "enter"
                     THEN /\ cash' = m.cash + net_credit(e.trade)
                          /\ open_trades' = Append1(m.still_open, e.trade)
                          /\ opened' = opened + 1
                          /\ equity_curve' = Append1(equity_curve, cash')
                     ELSE /\ cash' = m.cash
                          /\ open_trades' = m.still_open
                          /\ opened' = opened
                          /\ equity_curve' = IF e.kind = "reject" THEN equity_curve
                                             ELSE Append1(equity_curve, cash')
  /\ i' = i + 1
  /\ UNCHANGED <<run_start, all_df, df, initial_cash, pc, max_positions, state, shares,
                 cost_basis, open_trade, raised, result>>

\* NakedPutCloseOne without the buy-back: the position is closed but cash
\* keeps the cost of closing it.
NakedPutCloseOne_NoBuyBack(t, acc) ==
  LET S == LastRow.Close
      dte == Max(t.expiry_date - LastRow.date, 0)
      T == Years(dte)
      current_premium == bs_put_price(S, t.strike, T, risk_free, EndIV)
  IN  [cash |-> acc.cash,
       trades |-> Append1(acc.trades,
                    CloseTrade(t, LastRow.date, RoundTo(current_premium, Cent),
                               RoundTo(Times100(t.premium - current_premium) * t.contracts,
                                       MoneyCent),
                               "end_of_backtest"))]

\* The end close marked with the last row's volatility, defined or not.
NakedPutCloseOne_LastRowIV(t, acc) ==
  LET S == LastRow.Close
      dte == Max(t.expiry_date - LastRow.date, 0)
      current_premium == bs_put_price(S, t.strike, Years(dte), risk_free, LastRow.IV)
  IN  [cash |-> acc.cash - Times100(current_premium) * t.contracts,
       trades |-> Append1(acc.trades,
                    CloseTrade(t, LastRow.date, RoundTo(current_premium, Cent),
                               RoundTo(Times100(t.premium - current_premium) * t.contracts,
                                       MoneyCent),
                               "end_of_backtest"))]

\* The close of one remaining trade after the loop of run_naked_put.
NakedPutCloseOne(t, acc) ==
  LET S == LastRow.Close
      dte == Max(t.expiry_date - LastRow.date, 0)
      T == Years(dte)
      current_premium == bs_put_price(S, t.strike, T, risk_free, EndIV)
  IN  [cash |-> acc.cash - Times100(current_premium) * t.contracts,
       trades |-> Append1(acc.trades,
                    CloseTrade(t, LastRow.date, RoundTo(current_premium, Cent),
                               RoundTo(Times100(t.premium - current_premium) * t.contracts,
                                       MoneyCent),
                               "end_of_backtest"))]

\* Only the first remaining trade is closed at the end.
NakedPutCloseAll_FirstOnly(ts, acc) ==
  IF ts = <<>> THEN acc ELSE NakedPutCloseOne(Head(ts), acc)

RECURSIVE NakedPutCloseAll(_, _)
NakedPutCloseAll(ts, acc) ==
  IF ts = <<>> THEN acc
  ELSE NakedPutCloseAll(Tail(ts), NakedPutCloseOne(Head(ts), acc))

\* ------------------------------------------------------------------ summary
RECURSIVE SumPnl(_)
SumPnl(ts) == IF ts = <<>> THEN 0 ELSE Head(ts).pnl + SumPnl(Tail(ts))

\* summary(): the error record of a run without trades, else the metrics (the
\* counts, the totals and the closed list).
summary(strategy, trades_now, cash_now) ==
  IF trades_now = <<>> THEN [error |-> "No trades generated"]
  ELSE LET with_pnl == SelectSeq(trades_now, LAMBDA t : t.pnl # None)
       IN  [strategy |-> strategy,
            initial_cash |-> initial_cash,
            final_cash |-> RoundTo(cash_now, MoneyCent),
            total_pnl |-> RoundTo(SumPnl(with_pnl), MoneyCent),
            num_trades |-> Len(trades_now),
            wins |-> Len(SelectSeq(with_pnl, LAMBDA t : t.pnl > 0)),
            losses |-> Len(SelectSeq(with_pnl, LAMBDA t : t.pnl <= 0)),
            trades |-> trades_now]

\* The locals of a strategy function before its loop starts.
FreshLocals ==
  /\ i' = 1
  /\ open_trades' = <<>>
  /\ state' = "selling_puts"
  /\ shares' = 0
  /\ cost_basis' = 0
  /\ open_trade' = <<>>

\* The frame of a strategy function is gone once run() has returned.
DropLocals ==
  /\ i' = 0
  /\ open_trades' = <<>>
  /\ max_positions' = 0
  /\ state' = "selling_puts"
  /\ shares' = 0
  /\ cost_basis' = 0
  /\ open_trade' = <<>>

\* run(strategy) up to the first iteration of the strategy's loop: the lookup
\* in dispatch, and in run_naked_put the position cap from the median close.
Run(strategy) ==
  /\ call' = call
  /\ pc = "idle"
  /\ Len(equity_curve) + Len(df) <= MaxEquity
  /\ result' = <<>>
  /\ IF strategy \notin dispatch
     THEN /\ raised' = "ValueError: Unknown strategy"
          /\ UNCHANGED <<pc, i, open_trades, max_positions, state, shares,
                         cost_basis, open_trade, run_start>>
     ELSE IF strategy = "naked_put" /\ df = <<>>
     THEN /\ raised' = "ValueError: cannot convert float NaN to integer"
          /\ UNCHANGED <<pc, i, open_trades, max_positions, state, shares,
                         cost_basis, open_trade, run_start>>
     ELSE /\ raised' = "none"
          /\ pc' = strategy
          /\ run_start' = [strategy |-> strategy, cash |-> cash,
                           trades |-> Len(trades), equity |-> Len(equity_curve)]
          /\ FreshLocals
          /\ max_positions' =
               IF strategy = "naked_put"
               THEN LET q == (2 * initial_cash) \div TwiceMedianClose
                    IN  Min(IF q = 0 THEN 1 ELSE q, 2)
               ELSE IF strategy = "put_credit_spread" THEN 3
               ELSE 0
  /\ UNCHANGED <<all_df, df, initial_cash, cash, trades, equity_curve, opened>>

\* run_naked_put after its loop (the closes at the end) and the return of
\* run(): summary().
NakedPutEnd ==
  /\ call' = call
  /\ pc = "naked_put"
  /\ i > Len(df)
  /\ LET m == NakedPutCloseAll(open_trades, [cash |-> cash, trades |-> trades])
     IN  /\ cash' = m.cash
         /\ trades' = m.trades
         /\ result' = summary("naked_put", m.trades, m.cash)
  /\ pc' = "idle"
  /\ DropLocals
  /\ UNCHANGED <<run_start, all_df, df, initial_cash, equity_curve, opened, raised>>

\* -------------------------------------------------------------------- wheel
\* The branches of "Manage open trade" in run_wheel, on the locals
\* w = [cash, trades, open_trade, state, shares, cost_basis, opened] with the
\* open trade t.
\* A bought-back put that moves the wheel on to selling calls.
WheelProfitTarget_ModeFlips(w, t, row, current) ==
  LET pnl == RoundTo(Times100(t.premium - current), MoneyCent)
  IN  [w EXCEPT !.cash = w.cash + pnl,
                !.trades = Append1(w.trades,
                   CloseTrade(t, row.date, RoundTo(current, Cent), pnl, "profit_target")),
                !.open_trade = <<>>,
                !.state = IF w.state = "selling_puts" THEN "selling_calls" ELSE "selling_puts"]

\* 50% profit: the put or the call is bought back.
WheelProfitTarget(w, t, row, current) ==
  LET pnl == RoundTo(Times100(t.premium - current), MoneyCent)
  IN  [w EXCEPT !.cash = w.cash + pnl,
                !.trades = Append1(w.trades,
                   CloseTrade(t, row.date, RoundTo(current, Cent), pnl, "profit_target")),
                !.open_trade = <<>>]

\* Put expired in the money: assigned, 100 shares bought at the strike.
WheelAssigned(w, t, row) ==
  LET intrinsic == Max(t.strike - row.Close, 0)
      pnl == RoundTo(Times100(t.premium - intrinsic), MoneyCent)
  IN  [w EXCEPT !.cash = w.cash + pnl - Times100(t.strike),
                !.cost_basis = t.strike - t.premium,
                !.shares = 100,
                !.trades = Append1(w.trades, CloseTrade(t, row.date, None, pnl, "assigned")),
                !.open_trade = <<>>,
                !.state = "selling_calls"]

\* Shares called away with the mode left at selling_calls.
WheelCalledAway_KeepsMode(w, t, row) ==
  LET pnl == RoundTo(Times100(t.strike - w.cost_basis + t.premium), MoneyCent)
  IN  [w EXCEPT !.cash = w.cash + Times100(t.strike) + Times100(t.premium),
                !.shares = 0,
                !.trades = Append1(w.trades, CloseTrade(t, row.date, None, pnl, "called_away")),
                !.open_trade = <<>>]

\* Call expired with the close at or above the strike: shares called away.
WheelCalledAway(w, t, row) ==
  LET pnl == RoundTo(Times100(t.strike - w.cost_basis + t.premium), MoneyCent)
  IN  [w EXCEPT !.cash = w.cash + Times100(t.strike) + Times100(t.premium),
                !.shares = 0,
                !.trades = Append1(w.trades, CloseTrade(t, row.date, None, pnl, "called_away")),
                !.open_trade = <<>>,
                !.state = "selling_puts"]

\* Put or call expired worthless.
WheelExpiredOtm(w, t, row) ==
  LET pnl == RoundTo(Times100(t.premium), MoneyCent)
  IN  [w EXCEPT !.cash = w.cash + pnl,
                !.trades = Append1(w.trades, CloseTrade(t, row.date, 0, pnl, "expired_otm")),
                !.open_trade = <<>>]

\* "Manage open trade" for one row of run_wheel with a volatility; every path
\* of the iteration ends in one equity_curve.append.
WheelManage(row, w) ==
  LET S == row.Close
      t == w.open_trade[1]
      dte == t.expiry_date - row.date
      T == Years(dte)
      current == IF t.option_type = "put"
                 THEN bs_put_price(S, t.strike, T, risk_free, row.IV)
                 ELSE bs_call_price(S, t.strike, T, risk_free, row.IV)
  IN  IF t.option_type \notin {"put", "call"} THEN w
      ELSE IF 2 * current <= t.premium THEN WheelProfitTarget(w, t, row, current)
      ELSE IF dte <= 0 /\ t.option_type = "put" /\ Max(t.strike - S, 0) > 0
      THEN WheelAssigned(w, t, row)
      ELSE IF dte <= 0 /\ t.option_type = "call" /\ S >= t.strike
      THEN WheelCalledAway(w, t, row)
      ELSE IF dte <= 0 THEN WheelExpiredOtm(w, t, row)
      ELSE w

\* "Open new trade" for one row of run_wheel.
WheelOpen(row, w) ==
  LET S == row.Close
      target_dte == 35
      T == <<target_dte, 365>>
      affordable_strike == w.cash
      put_strike == Min(find_strike_for_delta(S, T, risk_free, row.IV, 250000, "put"),
                        affordable_strike)
      put_premium == bs_put_price(S, put_strike, T, risk_free, row.IV)
      call_strike == Max(find_strike_for_delta(S, T, risk_free, row.IV, 300000, "call"),
                         (w.cost_basis * 102) \div 100)
      call_premium == bs_call_price(S, call_strike, T, risk_free, row.IV)
      put_trade == Trade("wheel", row.date, row.date + target_dte, RoundTo(put_strike, Cent),
                         "put", RoundTo(put_premium, Cent), None, None)
      call_trade == Trade("wheel", row.date, row.date + target_dte, RoundTo(call_strike, Cent),
                          "call", RoundTo(call_premium, Cent), None, None)
  IN  IF w.state = "selling_puts"
      THEN IF affordable_strike < (S * 70) \div 100 THEN w
           ELSE IF put_premium < 10000 THEN w
           ELSE [w EXCEPT !.open_trade = <<put_trade>>,
                          !.cash = w.cash + net_credit(put_trade),
                          !.opened = w.opened + 1]
      ELSE IF w.state = "selling_calls" /\ w.shares >= 100
      THEN IF call_premium < 5000 THEN w
           ELSE [w EXCEPT !.open_trade = <<call_trade>>,
                          !.cash = w.cash + net_credit(call_trade),
                          !.opened = w.opened + 1]
      ELSE w

WheelBar ==
  /\ call' = call
  /\ pc = "wheel"
  /\ i <= Len(df)
  /\ LET row == df[i]
         w0 == [cash |-> cash, trades |-> trades, open_trade |-> open_trade,
                state |-> state, shares |-> shares, cost_basis |-> cost_basis,
                opened |-> opened]
         w == IF isnan(row.IV) THEN w0
              ELSE IF open_trade # <<>> THEN WheelManage(row, w0)
              ELSE WheelOpen(row, w0)
     IN  /\ cash' = w.cash
         /\ trades' = w.trades
         /\ open_trade' = w.open_trade
         /\ state' = w.state
         /\ shares' = w.shares
         /\ cost_basis' = w.cost_basis
         /\ opened' = w.opened
         /\ equity_curve' = Append1(equity_curve, w.cash + (w.shares * row.Close) \div 100)
  /\ i' = i + 1
  /\ UNCHANGED <<run_start, all_df, df, initial_cash, pc, open_trades, max_positions, raised, result>>

\* run_wheel after its loop: the open trade marked to market, the shares sold
\* at the last close; then the return of run(): summary().
WheelEnd ==
  /\ call' = call
  /\ pc = "wheel"
  /\ i > Len(df)
  /\ LET t == open_trade[1]
         dte == Max(t.expiry_date - LastRow.date, 0)
         T == Years(dte)
         current == IF t.option_type = "put"
                    THEN bs_put_price(LastRow.Close, t.strike, T, risk_free, EndIV)
                    ELSE bs_call_price(LastRow.Close, t.strike, T, risk_free, EndIV)
         pnl == RoundTo(Times100(t.premium - current), MoneyCent)
         cash1 == IF open_trade # <<>> THEN cash + pnl ELSE cash
         trades1 == IF open_trade # <<>>
                    THEN Append1(trades, CloseTrade(t, LastRow.date, RoundTo(current, Cent),
                                                    pnl, "end_of_backtest"))
                    ELSE trades
         cash2 == IF shares > 0 THEN cash1 + (shares * LastRow.Close) \div 100 ELSE cash1
     IN  /\ cash' = cash2
         /\ trades' = trades1
         /\ result' = summary("wheel", trades1, cash2)
  /\ pc' = "idle"
  /\ DropLocals
  /\ UNCHANGED <<run_start, all_df, df, initial_cash, equity_curve, opened, raised>>

\* -------------------------------------------------------- put credit spread
\* run_put_credit_spread: spread_width = 5.0
spread_width == 500000

\* t.premium - (t.long_premium or 0)
InitialCredit(t) == t.premium - (IF t.long_premium = None THEN 0 ELSE t.long_premium)

\* The body of the loop over open_trades for one spread t on row `row`.
\* The exit loop of the spread with the expiry test ahead of the profit
\* target and the stop loss.
SpreadManageOne_ExpiryFirst(t, row, acc) ==
  LET S == row.Close
      dte == t.expiry_date - row.date
      T == Years(dte)
      spread_val == bs_put_price(S, t.strike, T, risk_free, row.IV)
                      - bs_put_price(S, t.long_strike, T, risk_free, row.IV)
      initial_credit == InitialCredit(t)
      max_loss == spread_width - initial_credit
      pnl_mark == RoundTo(Times100(initial_credit - spread_val) * t.contracts, MoneyCent)
      net == Max(t.strike - S, 0) - Max(t.long_strike - S, 0)
      pnl_expired == RoundTo(Times100(initial_credit - net) * t.contracts, MoneyCent)
  IN  IF dte <= 0
      THEN [cash |-> acc.cash + pnl_expired,
            trades |-> Append1(acc.trades,
                         CloseTrade(t, row.date, None, pnl_expired, "expired")),
            still_open |-> acc.still_open]
      ELSE IF 2 * spread_val <= initial_credit
      THEN [cash |-> acc.cash + pnl_mark,
            trades |-> Append1(acc.trades,
                         CloseTrade(t, row.date, RoundTo(spread_val, Cent), pnl_mark,
                                    "profit_target_50pct")),
            still_open |-> acc.still_open]
      ELSE IF 4 * spread_val >= 4 * initial_credit + 3 * max_loss
      THEN [cash |-> acc.cash + pnl_mark,
            trades |-> Append1(acc.trades,
                         CloseTrade(t, row.date, RoundTo(spread_val, Cent), pnl_mark,
                                    "stop_loss")),
            still_open |-> acc.still_open]
      ELSE [acc EXCEPT !.still_open = Append1(acc.still_open, t)]

\* The exit loop of the spread with the long leg's intrinsic value taken as
\* a call's (S - long strike) at expiry.
SpreadManageOne_LongLegAsCall(t, row, acc) ==
  LET S == row.Close
      dte == t.expiry_date - row.date
      T == Years(dte)
      spread_val == bs_put_price(S, t.strike, T, risk_free, row.IV)
                      - bs_put_price(S, t.long_strike, T, risk_free, row.IV)
      initial_credit == InitialCredit(t)
      max_loss == spread_width - initial_credit
      pnl_mark == RoundTo(Times100(initial_credit - spread_val) * t.contracts, MoneyCent)
      net == Max(t.strike - S, 0) - Max(S - t.long_strike, 0)
      pnl_expired == RoundTo(Times100(initial_credit - net) * t.contracts, MoneyCent)
  IN  IF 2 * spread_val <= initial_credit
      THEN [cash |-> acc.cash + pnl_mark,
            trades |-> Append1(acc.trades,
                         CloseTrade(t, row.date, RoundTo(spread_val, Cent), pnl_mark,
                                    "profit_target_50pct")),
            still_open |-> acc.still_open]
      ELSE IF 4 * spread_val >= 4 * initial_credit + 3 * max_loss
      THEN [cash |-> acc.cash + pnl_mark,
            trades |-> Append1(acc.trades,
                         CloseTrade(t, row.date, RoundTo(spread_val, Cent), pnl_mark,
                                    "stop_loss")),
            still_open |-> acc.still_open]
      ELSE IF dte <= 0
      THEN [cash |-> acc.cash + pnl_expired,
            trades |-> Append1(acc.trades,
                         CloseTrade(t, row.date, None, pnl_expired, "expired")),
            still_open |-> acc.still_open]
      ELSE [acc EXCEPT !.still_open = Append1(acc.still_open, t)]

SpreadManageOne(t, row, acc) ==
  LET S == row.Close
      dte == t.expiry_date - row.date
      T == Years(dte)
      short_val == bs_put_price(S, t.strike, T, risk_free, row.IV)
      long_val == bs_put_price(S, t.long_strike, T, risk_free, row.IV)
      spread_val == short_val - long_val
      initial_credit == InitialCredit(t)
      max_loss == spread_width - initial_credit
      pnl_mark == RoundTo(Times100(initial_credit - spread_val) * t.contracts, MoneyCent)
      short_itm == Max(t.strike - S, 0)
      long_itm == Max(t.long_strike - S, 0)
      net == short_itm - long_itm
      pnl_expired == RoundTo(Times100(initial_credit - net) * t.contracts, MoneyCent)
  IN  IF 2 * spread_val <= initial_credit
      THEN [cash |-> acc.cash + pnl_mark,
            trades |-> Append1(acc.trades,
                         CloseTrade(t, row.date, RoundTo(spread_val, Cent), pnl_mark,
                                    "profit_target_50pct")),
            still_open |-> acc.still_open]
      ELSE IF 4 * spread_val >= 4 * initial_credit + 3 * max_loss
      THEN [cash |-> acc.cash + pnl_mark,
            trades |-> Append1(acc.trades,
                         CloseTrade(t, row.date, RoundTo(spread_val, Cent), pnl_mark,
                                    "stop_loss")),
            still_open |-> acc.still_open]
      ELSE IF dte <= 0
      THEN [cash |-> acc.cash + pnl_expired,
            trades |-> Append1(acc.trades,
                         CloseTrade(t, row.date, None, pnl_expired, "expired")),
            still_open |-> acc.still_open]
      ELSE [acc EXCEPT !.still_open = Append1(acc.still_open, t)]

RECURSIVE SpreadManage(_, _, _)
SpreadManage(ts, row, acc) ==
  IF ts = <<>> THEN acc
  ELSE SpreadManage(Tail(ts), row, SpreadManageOne(Head(ts), row, acc))

\* The entry block of the spread without the test of the open count.
SpreadEntry_NoCap(row, n_open, cash_now, cap) ==
  IF row.RedDay /\ row.RSI < 45
  THEN LET S == row.Close
           T == <<35, 365>>
           short_strike == find_strike_for_delta(S, T, risk_free, row.IV, 250000, "put")
           long_strike == short_strike - spread_width
           short_prem == bs_put_price(S, short_strike, T, risk_free, row.IV)
           long_prem == bs_put_price(S, long_strike, T, risk_free, row.IV)
           credit == short_prem - long_prem
       IN  IF credit < 15000 THEN [kind |-> "reject"]
           ELSE IF Times100(spread_width - credit) * 100 > cash_now * 15
           THEN [kind |-> "reject"]
           ELSE [kind |-> "enter",
                 trade |-> Trade("put_credit_spread", row.date, row.date + 35,
                                 RoundTo(short_strike, Cent), "spread",
                                 RoundTo(short_prem, Cent),
                                 RoundTo(long_strike, Cent), RoundTo(long_prem, Cent))]
  ELSE [kind |-> "none"]

SpreadEntry(row, n_open, cash_now, cap) ==
  IF row.RedDay /\ row.RSI < 45 /\ n_open < cap
  THEN LET S == row.Close
           target_dte == 35
           T == <<target_dte, 365>>
           short_strike == find_strike_for_delta(S, T, risk_free, row.IV, 250000, "put")
           long_strike == short_strike - spread_width
           short_prem == bs_put_price(S, short_strike, T, risk_free, row.IV)
           long_prem == bs_put_price(S, long_strike, T, risk_free, row.IV)
           credit == short_prem - long_prem
           max_risk == Times100(spread_width - credit)
       IN  IF credit < 15000 THEN [kind |-> "reject"]
           ELSE IF max_risk * 100 > cash_now * 15 THEN [kind |-> "reject"]
           ELSE [kind |-> "enter",
                 trade |-> Trade("put_credit_spread", row.date, row.date + target_dte,
                                 RoundTo(short_strike, Cent), "spread",
                                 RoundTo(short_prem, Cent),
                                 RoundTo(long_strike, Cent), RoundTo(long_prem, Cent))]
  ELSE [kind |-> "none"]

\* One iteration of the loop of run_put_credit_spread.
SpreadBar ==
  /\ call' = call
  /\ pc = "put_credit_spread"
  /\ i <= Len(df)
  /\ LET row == df[i]
     IN  IF isnan(row.IV) \/ isnan(row.RSI)
         THEN /\ equity_curve' = Append1(equity_curve, cash)
              /\ UNCHANGED <<cash, trades, open_trades, opened>>
         ELSE LET m == SpreadManage(open_trades, row,
                         [cash |-> cash, trades |-> trades, still_open |-> <<>>])
                  e == SpreadEntry(row, Len(m.still_open), m.cash, max_positions)
              IN  /\ trades' = m.trades
                  /\ IF e.kind = "enter"
                     THEN /\ cash' = m.cash + net_credit(e.trade)
                          /\ open_trades' = Append1(m.still_open, e.trade)
                          /\ opened' = opened + 1
                          /\ equity_curve' = Append1(equity_curve, cash')
                     ELSE /\ cash' = m.cash
                          /\ open_trades' = m.still_open
                          /\ opened' = opened
                          /\ equity_curve' = IF e.kind = "reject" THEN equity_curve
                                             ELSE Append1(equity_curve, cash')
  /\ i' = i + 1
  /\ UNCHANGED <<run_start, all_df, df, initial_cash, pc, max_positions, state, shares,
                 cost_basis, open_trade, raised, result>>

SpreadCloseOne(t, acc) ==
  LET S == LastRow.Close
      initial_credit == InitialCredit(t)
      dte == Max(t.expiry_date - LastRow.date, 0)
      T == Years(dte)
      short_val == bs_put_price(S, t.strike, T, risk_free, EndIV)
      long_val == bs_put_price(S, t.long_strike, T, risk_free, EndIV)
      spread_val == short_val - long_val
      pnl == RoundTo(Times100(initial_credit - spread_val) * t.contracts, MoneyCent)
  IN  [cash |-> acc.cash + pnl,
       trades |-> Append1(acc.trades,
                    CloseTrade(t, LastRow.date, RoundTo(spread_val, Cent), pnl,
                               "end_of_backtest"))]

RECURSIVE SpreadCloseAll(_, _)
SpreadCloseAll(ts, acc) ==
  IF ts = <<>> THEN acc
  ELSE SpreadCloseAll(Tail(ts), SpreadCloseOne(Head(ts), acc))

\* run_put_credit_spread after its loop, and the return of run(): summary().
SpreadEnd ==
  /\ call' = call
  /\ pc = "put_credit_spread"
  /\ i > Len(df)
  /\ LET m == SpreadCloseAll(open_trades, [cash |-> cash, trades |-> trades])
     IN  /\ cash' = m.cash
         /\ trades' = m.trades
         /\ result' = summary("put_credit_spread", m.trades, m.cash)
  /\ pc' = "idle"
  /\ DropLocals
  /\ UNCHANGED <<run_start, all_df, df, initial_cash, equity_curve, opened, raised>>

\* ------------------------------------------------------------ specification
Next ==
  \/ \E strategy \in StrategyNames : Run(strategy)
  \/ NakedPutBar
  \/ NakedPutEnd
  \/ WheelBar
  \/ WheelEnd
  \/ SpreadBar
  \/ SpreadEnd

Spec == Init /\ [][Next]_vars

\* Runs of the wheel alone, on longer windows.
NextWheel ==
  \/ Run("wheel")
  \/ WheelBar
  \/ WheelEnd

SpecWheel == InitWheel /\ [][NextWheel]_vars

\* Runs of the wheel from $2,000.00, a balance that covers one assignment at
\* the strikes in reach, on windows where the close can fall from 20 to 14 by
\* the expiry day.
LowCashBarKinds ==
  { [gap |-> 1,  Close |-> 2000000, IV |-> 300, RSI |-> 30,  RedDay |-> TRUE],
    [gap |-> 35, Close |-> 1400000, IV |-> 300, RSI |-> 30,  RedDay |-> TRUE],
    [gap |-> 35, Close |-> 1850000, IV |-> 300, RSI |-> 50,  RedDay |-> FALSE],
    [gap |-> 35, Close |-> 2400000, IV |-> 300, RSI |-> 50,  RedDay |-> FALSE] }

LowCashSet == {2000 * 1000}

InitLowCash == InitFor(LowCashBarKinds, MaxBarsLowCash, LowCashSet)

SpecLowCash == InitLowCash /\ [][NextWheel]_vars

\* Runs of the two strategies with position lists, from several initial
\* balances and on windows long enough for a fourth entry signal.  The rows:
\* an entry signal, an entry signal on quiet volatility (premium and credit
\* too small), no signal, a down day with the oscillator between the two
\* thresholds, and an entry signal on the day earlier positions expire.
EntryBarKinds ==
  { [gap |-> 1,  Close |-> 2000000, IV |-> 300, RSI |-> 30,  RedDay |-> TRUE],
    [gap |-> 1,  Close |-> 2000000, IV |-> 100, RSI |-> 30,  RedDay |-> TRUE],
    [gap |-> 1,  Close |-> 2400000, IV |-> 300, RSI |-> 50,  RedDay |-> FALSE],
    [gap |-> 1,  Close |-> 1400000, IV |-> 300, RSI |-> 42,  RedDay |-> TRUE],
    [gap |-> 35, Close |-> 1850000, IV |-> 300, RSI |-> 30,  RedDay |-> TRUE] }

\* $300.00, $3,159.50 and $5,000.00
EntryCashSet == {300 * 1000, 3159500, 5000 * 1000}

InitEntry == InitFor(EntryBarKinds, MaxBarsEntry, EntryCashSet)

NextEntry ==
  \/ Run("naked_put")
  \/ NakedPutBar
  \/ NakedPutEnd
  \/ Run("put_credit_spread")
  \/ SpreadBar
  \/ SpreadEnd

SpecEntry == InitEntry /\ [][NextEntry]_vars

\* Runs of the same two strategies on windows with rows that lack a feature:
\* an entry signal, an ordinary expiry day, and three rows without the
\* oscillator, without the volatility, or without both, the first two on an
\* expiry day that would otherwise close positions and signal an entry.
SkipBarKinds ==
  { [gap |-> 1,  Close |-> 2000000, IV |-> 300, RSI |-> 30,  RedDay |-> TRUE],
    [gap |-> 35, Close |-> 1850000, IV |-> 300, RSI |-> 50,  RedDay |-> FALSE],
    [gap |-> 35, Close |-> 2400000, IV |-> 300, RSI |-> NaN, RedDay |-> TRUE],
    [gap |-> 35, Close |-> 1850000, IV |-> NaN, RSI |-> 30,  RedDay |-> TRUE],
    [gap |-> 1,  Close |-> 2000000, IV |-> NaN, RSI |-> NaN, RedDay |-> FALSE] }

InitSkip == InitFor(SkipBarKinds, MaxBarsSkip, InitialCashSet)

SpecSkip == InitSkip /\ [][NextEntry]_vars

\* ------------------------------------------------------- pricing functions
\* The arguments the pricing functions are called with: spot and strike on
\* both sides of each other, expired and live tenors, non-positive and
\* positive volatilities.
PricingS == {1850000, 2000000}
PricingK == {1900000, 2000000, 2100000}
PricingT == {<<0 - 1, 365>>, <<0, 365>>, <<1, 1000>>, <<35, 365>>}
PricingR == {0, 45}
PricingSigma == {0 - 100, 0, 300, 900}
OptionTypes == {"call", "put"}
\* find_strike_for_delta: spots whose grid is on and off the half dollars, a
\* one-dollar stock, and target deltas from 0 to 0.9.
StrikeS == {2000000, 1020000, 1040000, 100000}
StrikeT == {<<0, 365>>, <<35, 365>>}
StrikeSigma == {0, 300}
TargetDeltas == {0, 250000, 300000, 900000}

\* No Backtester is involved: only the module-level functions are called.
InitPricing ==
  /\ all_df = <<>>
  /\ df = <<>>
  /\ initial_cash = 0
  /\ cash = 0
  /\ trades = <<>>
  /\ equity_curve = <<>>
  /\ pc = "pricing"
  /\ i = 0
  /\ open_trades = <<>>
  /\ max_positions = 0
  /\ state = "selling_puts"
  /\ shares = 0
  /\ cost_basis = 0
  /\ open_trade = <<>>
  /\ opened = 0
  /\ run_start = [strategy |-> "none", cash |-> 0, trades |-> 0, equity |-> 0]
  /\ raised = "none"
  /\ call = [fn |-> "none"]
  /\ result = <<>>

\* The float a pricing function returned.
Returned(x) == [value |-> x]

Args(fn, S, K, T, r, sigma) ==
  [fn |-> fn, S |-> S, K |-> K, T |-> T, r |-> r, sigma |-> sigma]

CallBsPutPrice ==
  /\ pc = "pricing"
  /\ \E S \in PricingS, K \in PricingK, T \in PricingT, r \in PricingR, sigma \in PricingSigma :
       /\ call' = Args("bs_put_price", S, K, T, r, sigma)
       /\ result' = Returned(bs_put_price(S, K, T, r, sigma))
  /\ raised' = "none"
  /\ UNCHANGED <<self_fields, locals, pc, opened, run_start>>

CallBsCallPrice ==
  /\ pc = "pricing"
  /\ \E S \in PricingS, K \in PricingK, T \in PricingT, r \in PricingR, sigma \in PricingSigma :
       /\ call' = Args("bs_call_price", S, K, T, r, sigma)
       /\ result' = Returned(bs_call_price(S, K, T, r, sigma))
  /\ raised' = "none"
  /\ UNCHANGED <<self_fields, locals, pc, opened, run_start>>

CallBsPutDelta ==
  /\ pc = "pricing"
  /\ \E S \in PricingS, K \in PricingK, T \in PricingT, r \in PricingR, sigma \in PricingSigma :
       /\ call' = Args("bs_put_delta", S, K, T, r, sigma)
       /\ result' = Returned(bs_put_delta(S, K, T, r, sigma))
  /\ raised' = "none"
  /\ UNCHANGED <<self_fields, locals, pc, opened, run_start>>

CallBsCallDelta ==
  /\ pc = "pricing"
  /\ \E S \in PricingS, K \in PricingK, T \in PricingT, r \in PricingR, sigma \in PricingSigma :
       /\ call' = Args("bs_call_delta", S, K, T, r, sigma)
       /\ result' = Returned(bs_call_delta(S, K, T, r, sigma))
  /\ raised' = "none"
  /\ UNCHANGED <<self_fields, locals, pc, opened, run_start>>

CallBsmPrice ==
  /\ pc = "pricing"
  /\ \E S \in PricingS, K \in PricingK, T \in PricingT, r \in PricingR, sigma \in PricingSigma,
        option_type \in OptionTypes :
       /\ call' = [fn |-> "bsm_price", S |-> S, K |-> K, T |-> T, r |-> r,
                   sigma |-> sigma, option_type |-> option_type]
       /\ result' = bsm_price(S, K, T, r, sigma, option_type)
  /\ raised' = "none"
  /\ UNCHANGED <<self_fields, locals, pc, opened, run_start>>

CallFindStrike ==
  /\ pc = "pricing"
  /\ \E S \in StrikeS, T \in StrikeT, sigma \in StrikeSigma, target_delta \in TargetDeltas,
        option_type \in OptionTypes :
       /\ call' = [fn |-> "find_strike_for_delta", S |-> S, T |-> T, r |-> risk_free,
                   sigma |-> sigma, target_delta |-> target_delta,
                   option_type |-> option_type]
       /\ result' = Returned(find_strike_for_delta(S, T, risk_free, sigma, target_delta,
                                                   option_type))
  /\ raised' = "none"
  /\ UNCHANGED <<self_fields, locals, pc, opened, run_start>>

NextPricing ==
  \/ CallBsPutPrice
  \/ CallBsCallPrice
  \/ CallBsPutDelta
  \/ CallBsCallDelta
  \/ CallBsmPrice
  \/ CallFindStrike

SpecPricing == InitPricing /\ [][NextPricing]_vars

\* ---------------------------------------------------------------- features
\* compute_rsi(prices, period), the oscillator in whole points.  delta is
\* prices.diff() (undefined at the first price); gain and loss are the
\* rolling means of its positive and negative parts, defined once `period`
\* deltas are in the window; rs = gain / loss is a float division of numpy:
\* x / 0 is inf for x > 0 and 0 / 0 is nan, neither raises; the result is
\* 100 - 100 / (1 + rs).
RECURSIVE WindowSum(_, _, _, _)
WindowSum(prices, first, last, sign) ==
  IF first > last THEN 0
  ELSE Max(sign * (prices[first] - prices[first - 1]), 0)
         + WindowSum(prices, first + 1, last, sign)

compute_rsi(prices, period) ==
  [k \in 1..Len(prices) |->
     IF k <= period THEN NaN
     ELSE LET gain == WindowSum(prices, k - period + 1, k, 1)
              loss == WindowSum(prices, k - period + 1, k, 0 - 1)
          IN  IF loss = 0 THEN (IF gain = 0 THEN NaN ELSE 100)
              ELSE 100 - (100 * loss) \div (gain + loss)]

RsiPrices == {1900000, 2000000, 2100000}
RsiPeriods == {2, 3}

CallComputeRsi ==
  /\ pc = "pricing"
  /\ \E n \in 1..MaxPrices : \E prices \in [1..n -> RsiPrices] : \E period \in RsiPeriods :
       /\ call' = [fn |-> "compute_rsi", prices |-> prices, period |-> period]
       /\ result' = Returned(compute_rsi(prices, period))
  /\ raised' = "none"
  /\ UNCHANGED <<self_fields, locals, pc, opened, run_start>>

NextFeatures == CallComputeRsi

SpecFeatures == InitPricing /\ [][NextFeatures]_vars

\* ------------------------------------------------------------------- claims
\* The positions the last dispatched run() has closed so far.
ClosedInRun == SubSeq(trades, run_start.trades + 1, Len(trades))

\* run() of `strategy` was dispatched and has returned.
Finished(strategy) == pc = "idle" /\ run_start.strategy = strategy

\* Cash gained since the run started, less the realized P&L of the run.
LedgerGap == cash - run_start.cash - SumPnl(ClosedInRun)

\* Half a cent for each position closed in the run: what rounding P&L to
\* cents can add up to.
WithinRounding(x) == 2 * Abs(x) <= MoneyCent * Len(ClosedInRun)

\* C1: after a complete single-leg short put run, forced closes at the end
\* included, final cash minus the cash the run started from equals the sum of
\* the realized P&L of the positions it closed, within rounding.
C1_NakedPutCashEqualsPnl == Finished("naked_put") => WithinRounding(LedgerGap)

\* A finished single-leg run that closed one position by an exit rule and one
\* at the end, the latter with a P&L that rounding changed.
C1_Witness ==
  /\ Finished("naked_put")
  /\ \E k \in 1..Len(ClosedInRun) : ClosedInRun[k].reason = "end_of_backtest"
  /\ \E k \in 1..Len(ClosedInRun) :
       ClosedInRun[k].reason \in {"profit_target_50pct", "stop_loss_200pct", "expired_itm"}
  /\ LedgerGap # 0

\* C2: after a complete short put vertical spread run, final cash minus the
\* cash the run started from equals the sum of the realized P&L of the spreads
\* it closed, within rounding.
C2_SpreadCashEqualsPnl == Finished("put_credit_spread") => WithinRounding(LedgerGap)

\* C3: a wheel option opened at premium p and bought back at mark m (profit
\* target or end-of-run mark) changes cash by (p - m) * 100 over entry and
\* exit together, its realized P&L: in a wheel run whose positions were all
\* bought back, cash gained equals the sum of the realized P&L, within rounding.
C3_WheelCreditCountedOnce ==
  ( /\ Finished("wheel")
    /\ \A k \in 1..Len(ClosedInRun) :
         ClosedInRun[k].reason \in {"profit_target", "end_of_backtest"} )
  => WithinRounding(LedgerGap)

\* C4: in a wheel run shares held is 0 or a positive multiple of 100, and the
\* mode changes only on a bar that closes a position with reason assigned
\* (selling_puts to selling_calls) or called_away (selling_calls to
\* selling_puts); no other bar of the run changes it.
SharesOK == shares = 0 \/ (shares > 0 /\ shares % 100 = 0)

ModeRule ==
  (pc = "wheel" /\ pc' = "wheel" /\ state' # state) =>
    /\ Len(trades') = Len(trades) + 1
    /\ LET t == trades'[Len(trades')]
       IN  \/ state = "selling_puts" /\ state' = "selling_calls" /\ t.reason = "assigned"
           \/ state = "selling_calls" /\ state' = "selling_puts" /\ t.reason = "called_away"

C4_WheelSharesAndMode == []SharesOK /\ [][ModeRule]_vars

\* A wheel run that was assigned, sold a call, had the shares called away and
\* is back to selling puts, and that also closed a position at its profit
\* target along the way.
C4_Witness ==
  /\ pc = "wheel"
  /\ state = "selling_puts"
  /\ shares = 0
  /\ \E k \in 1..Len(ClosedInRun) : ClosedInRun[k].reason = "assigned"
  /\ \E k \in 1..Len(ClosedInRun) : ClosedInRun[k].reason = "called_away"

\* C5: in every variant each position the entry rule creates is appended to
\* the closed list exactly once: positions created = positions closed + those
\* still open, the closed list only grows at its end, and when the run has
\* returned nothing is open, so closed = created.
CreatedIsOpenOrClosed ==
  /\ Len(trades) + Len(open_trades) + Len(open_trade) = opened
  /\ pc = "idle" => (open_trades = <<>> /\ open_trade = <<>> /\ Len(trades) = opened)

ClosedAppendOnly ==
  Len(trades') >= Len(trades) /\ SubSeq(trades', 1, Len(trades)) = trades

C5_ClosedExactlyOnce == []CreatedIsOpenOrClosed /\ [][ClosedAppendOnly]_vars

\* A returned run that created two positions or more, one closed by an exit
\* rule and one by the forced close at the end.
C5_Witness ==
  /\ pc = "idle"
  /\ opened >= 2
  /\ \E k \in 1..Len(trades) : trades[k].reason = "end_of_backtest"
  /\ \E k \in 1..Len(trades) : trades[k].reason \notin {"end_of_backtest", NoReason}

\* C6: every open position has exit date, exit premium, P&L and close reason
\* all unset, and every position of the closed list has all four set.
AllUnset(t) ==
  t.exit_date = None /\ t.exit_premium = None /\ t.pnl = None /\ t.reason = NoReason
AllSet(t) ==
  t.exit_date # None /\ t.exit_premium # None /\ t.pnl # None /\ t.reason # NoReason

C6_ExitFieldsAllOrNone ==
  /\ \A k \in 1..Len(trades) : AllSet(trades[k])
  /\ \A k \in 1..Len(open_trades) : AllUnset(open_trades[k])
  /\ \A k \in 1..Len(open_trade) : AllUnset(open_trade[k])

\* C7: in each variant the equity sequence gains exactly one entry per bar:
\* during a run it has one entry for every bar already processed, and after
\* the run as many as the window has bars.
C7_EquityOnePerBar ==
  /\ pc \in {"naked_put", "wheel", "put_credit_spread"}
       => Len(equity_curve) - run_start.equity = i - 1
  /\ (pc = "idle" /\ run_start.strategy # "none")
       => Len(equity_curve) - run_start.equity = Len(df)

\* C9: every run() starts from the initial cash with an empty closed list and
\* an empty equity sequence.
C9_RunStartsFresh ==
  (pc \in {"naked_put", "wheel", "put_credit_spread"} /\ i = 1)
    => (cash = initial_cash /\ trades = <<>> /\ equity_curve = <<>>)

\* C10: run() with a name that is no strategy raises ValueError before any bar
\* is processed and leaves cash, closed list and equity sequence as they were;
\* an empty fetched series raises ValueError in the constructor, so there is
\* no object to run; and on an empty study window every run() ends in an error
\* (a ValueError or the error record) with nothing simulated.
UnknownStrategyStep ==
  Run("iron_condor") =>
    /\ raised' = "ValueError: Unknown strategy"
    /\ UNCHANGED <<cash, trades, equity_curve, pc, i, open_trades, open_trade, opened>>

NoBarsFailFast ==
  /\ all_df = <<>> =>
       /\ pc = "noobject"
       /\ raised = "ValueError: No data"
       /\ cash = initial_cash /\ trades = <<>> /\ equity_curve = <<>>
  /\ df = <<>> =>
       /\ cash = initial_cash /\ trades = <<>> /\ equity_curve = <<>>
       /\ opened = 0
       /\ DOMAIN result \in {{}, {"error"}}

C10_FailFast == []NoBarsFailFast /\ [][UnknownStrategyStep]_vars

\* An unknown strategy name was refused on an object that had already run and
\* closed positions.
C10_Witness ==
  /\ raised = "ValueError: Unknown strategy"
  /\ trades # <<>>
  /\ pc = "idle"

\* C11: for every non-empty window and recognized strategy, run() completes
\* and returns the metrics record (aggregate statistics and the list of
\* closed positions), also when no position was ever opened: then the list is
\* empty and the counts are zero, and no error is reported.
C11_RunReturnsMetrics ==
  (pc = "idle" /\ df # <<>> /\ run_start.strategy # "none"
     /\ raised # "ValueError: Unknown strategy") =>
    /\ raised = "none"
    /\ "error" \notin DOMAIN result
    /\ IF "trades" \in DOMAIN result
       THEN /\ result.trades = trades
            /\ result.num_trades = Len(trades)
            /\ result.wins + result.losses = Len(trades)
       ELSE FALSE

\* C12: for every S > 0 and every T, r, sigma and target delta,
\* find_strike_for_delta returns an exact multiple of 0.5 that lies in the
\* band of S of the requested kind: 70% to 100% of S for puts, 100% to 130%
\* of S for calls.
C12_StrikeOnGridInBand ==
  call.fn = "find_strike_for_delta" =>
    /\ result.value % 50000 = 0
    /\ call.option_type = "put" =>
         (70 * call.S <= 100 * result.value /\ 100 * result.value <= 100 * call.S)
    /\ call.option_type = "call" =>
         (100 * call.S <= 100 * result.value /\ 100 * result.value <= 130 * call.S)

\* C13: for T <= 0 or sigma <= 0 the pricing functions of the backtester take
\* the degenerate branch and return without raising: bs_put_price gives
\* max(K - S, 0), bs_call_price max(S - K, 0), bs_put_delta -1 if S < K else
\* 0, bs_call_delta 1 if S > K else 0.
Degenerate == call.T[1] <= 0 \/ call.sigma <= 0

C13_DegenerateBranch ==
  (call.fn \in {"bs_put_price", "bs_call_price", "bs_put_delta", "bs_call_delta"}
     /\ Degenerate) =>
    /\ raised = "none"
    /\ call.fn = "bs_put_price" =>
         result.value = (IF call.K - call.S > 0 THEN call.K - call.S ELSE 0)
    /\ call.fn = "bs_call_price" =>
         result.value = (IF call.S - call.K > 0 THEN call.S - call.K ELSE 0)
    /\ call.fn = "bs_put_delta" => result.value = (IF call.S < call.K THEN 0 - 1000000 ELSE 0)
    /\ call.fn = "bs_call_delta" => result.value = (IF call.S > call.K THEN 1000000 ELSE 0)

\* A put priced with zero volatility and time left, in the money: the
\* degenerate branch returned its intrinsic value.
C13_Witness ==
  /\ call.fn = "bs_put_price"
  /\ call.sigma = 0 /\ call.T[1] > 0
  /\ call.K > call.S
  /\ result.value = call.K - call.S

\* C14: bsm_price never raises on degenerate inputs: for T <= 0 it returns
\* the intrinsic value as price, delta 1 or 0 (call) / -1 or 0 (put) by
\* moneyness and zero gamma, theta, vega and rho; for sigma <= 0 with T > 0 it
\* returns a result too, the intrinsic-value fallback.
Intrinsic(option_type, S, K) ==
  IF option_type = "call" THEN (IF S - K > 0 THEN S - K ELSE 0)
  ELSE (IF K - S > 0 THEN K - S ELSE 0)

C14_BsmDegenerate ==
  (call.fn = "bsm_price" /\ (call.T[1] <= 0 \/ call.sigma <= 0)) =>
    /\ raised = "none"
    /\ result.price = Intrinsic(call.option_type, call.S, call.K)
    /\ call.T[1] <= 0 =>
         /\ result.delta = (IF call.option_type = "call"
                            THEN (IF call.S > call.K THEN 1000000 ELSE 0)
                            ELSE (IF call.S < call.K THEN 0 - 1000000 ELSE 0))
         /\ result.gamma = 0 /\ result.theta = 0 /\ result.vega = 0 /\ result.rho = 0

\* C15: put-call parity: for S > 0, K > 0, T > 0, sigma > 0 the call price
\* minus the put price equals S - K * exp(-r * T) within 0.01, for
\* bs_call_price / bs_put_price and for bsm_price with call / put.
ParityGap(callprice, putprice) ==
  callprice - putprice - (call.S - DiscountedStrike(call.K, call.T, call.r))

Live == call.T[1] > 0 /\ call.sigma > 0

C15_PutCallParity ==
  /\ (call.fn = "bs_call_price" /\ Live) =>
       LET gap == ParityGap(result.value,
                            bs_put_price(call.S, call.K, call.T, call.r, call.sigma))
       IN  gap < 1000 /\ 0 - gap < 1000
  /\ (call.fn = "bs_put_price" /\ Live) =>
       LET gap == ParityGap(bs_call_price(call.S, call.K, call.T, call.r, call.sigma),
                            result.value)
       IN  gap < 1000 /\ 0 - gap < 1000
  /\ (call.fn = "bsm_price" /\ Live) =>
       LET other == bsm_price(call.S, call.K, call.T, call.r, call.sigma,
                              IF call.option_type = "call" THEN "put" ELSE "call")
           gap == IF call.option_type = "call"
                  THEN ParityGap(result.price, other.price)
                  ELSE ParityGap(other.price, result.price)
       IN  gap < 1000 /\ 0 - gap < 1000

\* A live out-of-the-money call priced by bs_call_price at a positive rate:
\* the call is worth something although S - K * exp(-r * T) is negative.
C15_Witness ==
  /\ call.fn = "bs_call_price"
  /\ Live
  /\ call.r > 0
  /\ call.K > call.S
  /\ result.value > 0
  /\ call.S - DiscountedStrike(call.K, call.T, call.r) < 0

\* C16: naked put exit priority.  On every bar that is not skipped each open
\* position is tested in the order (1) mark <= 0.50 x entry premium, reason
\* profit_target_50pct; (2) mark >= 3.00 x entry premium, reason
\* stop_loss_200pct; (3) days to expiry <= 0, settled at the intrinsic value
\* with reason expired_otm if that is zero, else expired_itm.  The first rule
\* that holds closes the position with P&L = (entry premium - exit value) x
\* 100 x contracts and cash reduced by exit value x 100 x contracts; with no
\* rule holding the position stays open, unchanged.
NakedMark(t) ==
  bs_put_price(df[i].Close, t.strike, Years(t.expiry_date - df[i].date), risk_free,
               df[i].IV)

NakedIntrinsic(t) == IF t.strike - df[i].Close > 0 THEN t.strike - df[i].Close ELSE 0

NakedExitRule(t) ==
  IF 2 * NakedMark(t) <= t.premium THEN "profit_target_50pct"
  ELSE IF NakedMark(t) >= 3 * t.premium THEN "stop_loss_200pct"
  ELSE IF t.expiry_date - df[i].date <= 0
  THEN (IF NakedIntrinsic(t) = 0 THEN "expired_otm" ELSE "expired_itm")
  ELSE "open"

NakedExitValue(t) ==
  IF NakedExitRule(t) \in {"expired_otm", "expired_itm"} THEN NakedIntrinsic(t)
  ELSE NakedMark(t)

RECURSIVE SumExitCost(_)
SumExitCost(ts) ==
  IF ts = <<>> THEN 0
  ELSE Times100(Head(ts).exit_premium) * Head(ts).contracts + SumExitCost(Tail(ts))

NakedBarEvaluated ==
  /\ pc = "naked_put" /\ pc' = "naked_put" /\ i' = i + 1
  /\ ~isnan(df[i].IV) /\ ~isnan(df[i].RSI)

NakedExitStep ==
  NakedBarEvaluated =>
    LET closing == SelectSeq(open_trades, LAMBDA t : NakedExitRule(t) # "open")
        kept == SelectSeq(open_trades, LAMBDA t : NakedExitRule(t) = "open")
        new == SubSeq(trades', Len(trades) + 1, Len(trades'))
        entered == SubSeq(open_trades', Len(kept) + 1, Len(open_trades'))
    IN  /\ Len(new) = Len(closing)
        /\ \A k \in 1..Len(closing) :
             /\ new[k].reason = NakedExitRule(closing[k])
             /\ new[k].exit_premium = NakedExitValue(closing[k])
             /\ new[k].pnl = Times100(closing[k].premium - NakedExitValue(closing[k]))
                               * closing[k].contracts
             /\ new[k].strike = closing[k].strike
             /\ new[k].entry_date = closing[k].entry_date
        /\ Len(open_trades') >= Len(kept)
        /\ SubSeq(open_trades', 1, Len(kept)) = kept
        /\ cash' = cash - SumExitCost(new)
                     + (IF entered = <<>> THEN 0 ELSE net_credit(entered[1]))

C16_NakedPutExitPriority == [][NakedExitStep]_vars

\* A naked-put run in which one position was stopped out at three times its
\* premium while another one stayed open.
C16_Witness ==
  /\ pc = "naked_put"
  /\ open_trades # <<>>
  /\ \E k \in 1..Len(ClosedInRun) : ClosedInRun[k].reason = "stop_loss_200pct"

\* C17: naked put entry guard.  A position is opened on a bar only if, after
\* that bar's exits, the bar is a down day, the oscillator is below 40, fewer
\* positions than the cap are open, the margin requirement
\* max(0.20 S - max(S - strike, 0), 0.10 strike) x 100 is at most 80% of the
\* current cash and the premium is at least 0.10; then cash rises by premium
\* x 100 x contracts, and otherwise cash and the open list stay as the exits
\* left them.  So a window with no down day, or with the oscillator at or
\* above the threshold on every bar, opens no position (threshold 45 for the
\* spread).
NakedCap ==
  LET q == (2 * initial_cash) \div TwiceMedianClose
  IN  IF (IF q = 0 THEN 1 ELSE q) < 2 THEN (IF q = 0 THEN 1 ELSE q) ELSE 2

\* Ten times the per-share margin requirement.
TenMargin(S, strike) ==
  LET otm == IF S - strike > 0 THEN S - strike ELSE 0
  IN  IF 2 * S - 10 * otm > strike THEN 2 * S - 10 * otm ELSE strike

NakedEntryStep ==
  NakedBarEvaluated =>
    LET new == SubSeq(trades', Len(trades) + 1, Len(trades'))
        n_after == Len(open_trades) - Len(new)
        cash_after == cash - SumExitCost(new)
        row == df[i]
    IN  IF Len(open_trades') > n_after
        THEN LET t == open_trades'[Len(open_trades')]
             IN  /\ Len(open_trades') = n_after + 1
                 /\ t.entry_date = row.date
                 /\ row.RedDay
                 /\ row.RSI < 40
                 /\ n_after < NakedCap
                 /\ Times100(TenMargin(row.Close, t.strike)) <= 8 * cash_after
                 /\ t.premium >= 10000
                 /\ cash' = cash_after + Times100(t.premium) * t.contracts
        ELSE /\ cash' = cash_after
             /\ Len(open_trades') = n_after

NoDownDay == \A k \in 1..Len(df) : ~df[k].RedDay

OscillatorAtLeast(threshold) == \A k \in 1..Len(df) : df[k].RSI >= threshold

ZeroWithoutSignal ==
  /\ (pc = "naked_put" /\ (NoDownDay \/ OscillatorAtLeast(40)))
       => (open_trades = <<>> /\ ClosedInRun = <<>>)
  /\ (pc = "put_credit_spread" /\ (NoDownDay \/ OscillatorAtLeast(45)))
       => (open_trades = <<>> /\ ClosedInRun = <<>>)

SpreadNetCredit(t) == t.premium - t.long_premium

SpreadStructure(t) ==
  t.strategy = "put_credit_spread" =>
    /\ t.long_strike = t.strike - 500000
    /\ t.long_strike < t.strike
    /\ net_credit(t) = Times100(SpreadNetCredit(t)) * t.contracts

SpreadBarEvaluated ==
  /\ pc = "put_credit_spread" /\ pc' = "put_credit_spread" /\ i' = i + 1
  /\ ~isnan(df[i].IV) /\ ~isnan(df[i].RSI)

SpreadEntryStep ==
  (SpreadBarEvaluated /\ opened' = opened + 1) =>
    LET new == SubSeq(trades', Len(trades) + 1, Len(trades'))
        cash_after == cash + SumPnl(new)
        t == open_trades'[Len(open_trades')]
    IN  /\ t.entry_date = df[i].date
        /\ SpreadNetCredit(t) >= 15000
        /\ Times100(500000 - SpreadNetCredit(t)) * 100 <= 15 * cash_after
        /\ cash' = cash_after + Times100(SpreadNetCredit(t)) * t.contracts

C19_SpreadStructureAndGuard ==
  /\ [](\A k \in 1..Len(trades) : SpreadStructure(trades[k]))
  /\ [](\A k \in 1..Len(open_trades) : SpreadStructure(open_trades[k]))
  /\ [][SpreadEntryStep]_vars

\* C20: spread exit priority.  On every bar that is not skipped each open
\* spread is tested in the order (1) spread mark <= 0.50 x initial credit,
\* reason profit_target_50pct; (2) spread mark >= initial credit + 0.75 x
\* (width - initial credit), reason stop_loss; (3) days to expiry <= 0,
\* settled at short intrinsic - long intrinsic, reason expired.  The first
\* rule that holds closes the spread with realized P&L = (initial credit -
\* settlement value) x 100 x contracts, to the cent; with no rule holding the
\* spread stays open, unchanged.
SpreadMark(t) ==
  bs_put_price(df[i].Close, t.strike, Years(t.expiry_date - df[i].date), risk_free,
               df[i].IV)
    - bs_put_price(df[i].Close, t.long_strike, Years(t.expiry_date - df[i].date),
                   risk_free, df[i].IV)

SpreadIntrinsic(t) ==
  (IF t.strike - df[i].Close > 0 THEN t.strike - df[i].Close ELSE 0)
    - (IF t.long_strike - df[i].Close > 0 THEN t.long_strike - df[i].Close ELSE 0)

SpreadExitRule(t) ==
  IF 2 * SpreadMark(t) <= SpreadNetCredit(t) THEN "profit_target_50pct"
  ELSE IF 4 * SpreadMark(t) >= 4 * SpreadNetCredit(t) + 3 * (500000 - SpreadNetCredit(t))
  THEN "stop_loss"
  ELSE IF t.expiry_date - df[i].date <= 0 THEN "expired"
  ELSE "open"

SpreadSettlement(t) ==
  IF SpreadExitRule(t) = "expired" THEN SpreadIntrinsic(t) ELSE SpreadMark(t)

\* Twice the distance of a recorded P&L from (credit - settlement) x 100 x
\* contracts is at most one cent.
PnlToTheCent(pnl, t) ==
  LET exact == Times100(SpreadNetCredit(t) - SpreadSettlement(t)) * t.contracts
  IN  /\ 2 * (pnl - exact) <= MoneyCent
      /\ 2 * (exact - pnl) <= MoneyCent

SpreadExitStep ==
  SpreadBarEvaluated =>
    LET closing == SelectSeq(open_trades, LAMBDA t : SpreadExitRule(t) # "open")
        kept == SelectSeq(open_trades, LAMBDA t : SpreadExitRule(t) = "open")
        new == SubSeq(trades', Len(trades) + 1, Len(trades'))
    IN  /\ Len(new) = Len(closing)
        /\ \A k \in 1..Len(closing) :
             /\ new[k].reason = SpreadExitRule(closing[k])
             /\ PnlToTheCent(new[k].pnl, closing[k])
             /\ new[k].strike = closing[k].strike
             /\ new[k].long_strike = closing[k].long_strike
             /\ new[k].entry_date = closing[k].entry_date
        /\ Len(open_trades') >= Len(kept)
        /\ SubSeq(open_trades', 1, Len(kept)) = kept

C20_SpreadExitPriority == [][SpreadExitStep]_vars

\* A spread run in which one spread reached expiry with neither the profit
\* target nor the stop loss met, and was settled.
C20_Witness ==
  /\ pc = "put_credit_spread"
  /\ \E k \in 1..Len(ClosedInRun) : ClosedInRun[k].reason = "expired"

\* C21: wheel assignment step.  When an open put reaches expiry (days to
\* expiry <= 0) and the profit target did not fire: with intrinsic value > 0
\* it closes with reason assigned, shares become 100, cash decreases by
\* exactly strike x 100, cost basis becomes strike - premium and the mode
\* becomes selling_calls; with intrinsic value 0 it closes as expired_otm and
\* the mode stays selling_puts.
WheelPutAtExpiry ==
  /\ pc = "wheel" /\ pc' = "wheel" /\ i' = i + 1
  /\ ~isnan(df[i].IV)
  /\ open_trade # <<>>
  /\ open_trade[1].option_type = "put"
  /\ open_trade[1].expiry_date - df[i].date <= 0
  /\ 2 * bs_put_price(df[i].Close, open_trade[1].strike,
                      Years(open_trade[1].expiry_date - df[i].date), risk_free,
                      df[i].IV) > open_trade[1].premium

WheelPutClosedAs(reason) ==
  /\ Len(trades') = Len(trades) + 1
  /\ trades'[Len(trades')].reason = reason
  /\ trades'[Len(trades')].entry_date = open_trade[1].entry_date
  /\ open_trade' = <<>>

WheelAssignmentEffect ==
  /\ WheelPutClosedAs("assigned")
  /\ shares' = 100
  /\ cost_basis' = open_trade[1].strike - open_trade[1].premium
  /\ state' = "selling_calls"

WheelAssignmentStep ==
  WheelPutAtExpiry =>
    IF open_trade[1].strike - df[i].Close > 0
    THEN /\ WheelAssignmentEffect
         /\ cash' = cash - Times100(open_trade[1].strike)
    ELSE /\ WheelPutClosedAs("expired_otm")
         /\ state' = "selling_puts"
         /\ state = "selling_puts"

C21_WheelAssignment == [][WheelAssignmentStep]_vars

\* C22: per-bar step order, for every variant.  On each bar that is not
\* skipped the exits are evaluated first and then, on the same bar, the entry
\* rule is evaluated whenever room remains (open count below the cap; for the
\* wheel, no open position): a position closed on a bar frees room for a new
\* entry on that bar, so when the entry rule accepts in the state the exits
\* left, a position is opened on that bar.
ClosedOnBar == SubSeq(trades', Len(trades) + 1, Len(trades'))

NakedStepOrder ==
  NakedBarEvaluated =>
    LET n_after == Len(open_trades) - Len(ClosedOnBar)
        cash_after == cash - SumExitCost(ClosedOnBar)
    IN  NakedPutEntry(df[i], n_after, cash_after, max_positions).kind = "enter"
          => /\ Len(open_trades') = n_after + 1
             /\ open_trades'[n_after + 1].entry_date = df[i].date

SpreadStepOrder ==
  SpreadBarEvaluated =>
    LET n_after == Len(open_trades) - Len(ClosedOnBar)
        cash_after == cash + SumPnl(ClosedOnBar)
    IN  SpreadEntry(df[i], n_after, cash_after, max_positions).kind = "enter"
          => /\ Len(open_trades') = n_after + 1
             /\ open_trades'[n_after + 1].entry_date = df[i].date

\* The wheel as the exits of the bar left it, with no position open.
WheelAfterExits ==
  [cash |-> cash', trades |-> trades', open_trade |-> <<>>, state |-> state',
   shares |-> shares', cost_basis |-> cost_basis', opened |-> opened']

WheelStepOrder ==
  ( /\ pc = "wheel" /\ pc' = "wheel" /\ i' = i + 1
    /\ ~isnan(df[i].IV)
    /\ open_trade # <<>>
    /\ ClosedOnBar # <<>>
    /\ WheelOpen(df[i], WheelAfterExits).open_trade # <<>> )
  => (open_trade' # <<>> /\ open_trade'[1].entry_date = df[i].date)

C22_ExitsThenEntrySameBar ==
  [][NakedStepOrder /\ SpreadStepOrder /\ WheelStepOrder]_vars

\* C23: end-of-run liquidation.  After the last bar every position still open
\* is closed with reason end_of_backtest and exit date equal to the last
\* bar's date, marked at the last close price with the last defined
\* volatility when the final bar's is undefined; in the wheel the shares
\* still held are in addition turned into cash at the final close (cash
\* rises by shares x last close).
LastDefinedIV ==
  IF df[Len(df)].IV # NaN THEN df[Len(df)].IV
  ELSE all_df[CHOOSE j \in 1..Len(all_df) :
                /\ all_df[j].IV # NaN
                /\ \A k \in (j + 1)..Len(all_df) : all_df[k].IV = NaN].IV

EndTenor(t) ==
  Years(IF t.expiry_date - df[Len(df)].date > 0 THEN t.expiry_date - df[Len(df)].date
        ELSE 0)

EndMark(t) ==
  IF t.option_type = "put"
  THEN bs_put_price(df[Len(df)].Close, t.strike, EndTenor(t), risk_free, LastDefinedIV)
  ELSE IF t.option_type = "call"
  THEN bs_call_price(df[Len(df)].Close, t.strike, EndTenor(t), risk_free, LastDefinedIV)
  ELSE bs_put_price(df[Len(df)].Close, t.strike, EndTenor(t), risk_free, LastDefinedIV)
         - bs_put_price(df[Len(df)].Close, t.long_strike, EndTenor(t), risk_free,
                        LastDefinedIV)

EndOfRunStep ==
  (pc \in {"naked_put", "wheel", "put_credit_spread"} /\ pc' = "idle") =>
    LET still == open_trades \o open_trade
    IN  /\ Len(ClosedOnBar) = Len(still)
        /\ SubSeq(trades', 1, Len(trades)) = trades
        /\ \A k \in 1..Len(still) :
             /\ ClosedOnBar[k].reason = "end_of_backtest"
             /\ ClosedOnBar[k].exit_date = df[Len(df)].date
             /\ ClosedOnBar[k].exit_premium = RoundTo(EndMark(still[k]), Cent)
             /\ ClosedOnBar[k].entry_date = still[k].entry_date
             /\ ClosedOnBar[k].strike = still[k].strike
             /\ ClosedOnBar[k].option_type = still[k].option_type
        /\ pc = "wheel" =>
             cash' = cash + SumPnl(ClosedOnBar)
                       + (IF shares > 0 THEN (shares * df[Len(df)].Close) \div 100 ELSE 0)

C23_EndOfRunLiquidation == [][EndOfRunStep]_vars

\* A finished wheel run that ended holding 100 shares and an open call: the
\* call was closed at the end and the shares were sold.
C23_Witness ==
  /\ Finished("wheel")
  /\ ClosedInRun # <<>>
  /\ ClosedInRun[Len(ClosedInRun)].reason = "end_of_backtest"
  /\ ClosedInRun[Len(ClosedInRun)].option_type = "call"

\* C24: a skipped bar leaves the state untouched.  On a bar whose volatility
\* or oscillator is undefined the naked put and the spread change nothing
\* except appending the current, unchanged cash to the equity sequence: no
\* open position is closed, even past expiry or at its profit target or stop
\* loss, and none is opened.
SkippedBarStep ==
  ( /\ pc \in {"naked_put", "put_credit_spread"}
    /\ pc' = pc
    /\ i' = i + 1
    /\ (df[i].IV = NaN \/ df[i].RSI = NaN) )
  => /\ cash' = cash
     /\ trades' = trades
     /\ open_trades' = open_trades
     /\ opened' = opened
     /\ equity_curve' = equity_curve \o <<cash>>
     /\ UNCHANGED <<initial_cash, df, all_df, max_positions, raised>>

C24_SkipLeavesStateUntouched == [][SkippedBarStep]_vars

\* After a skipped bar of a naked-put run a position is still open although
\* the bar was at or past its expiry.
C24_Witness ==
  /\ pc = "naked_put"
  /\ i > 1
  /\ df[i - 1].RSI = NaN
  /\ df[i - 1].IV # NaN
  /\ open_trades # <<>>
  /\ open_trades[1].expiry_date <= df[i - 1].date
  /\ Len(equity_curve) - run_start.equity = i - 1

\* C25: oscillator saturation.  For every filled trailing window whose
\* average loss is exactly zero, whether the average gain is positive or also
\* zero (flat prices), compute_rsi yields 100, never an undefined value, so
\* the simulator does not treat such a bar as warmup.
NoLossWindow(prices, k, period) ==
  /\ k > period
  /\ \A j \in (k - period + 1)..k : prices[j] >= prices[j - 1]

C25_RsiSaturates ==
  call.fn = "compute_rsi" =>
    \A k \in 1..Len(call.prices) :
      NoLossWindow(call.prices, k, call.period) =>
        (result.value[k] = 100 /\ ~isnan(result.value[k]))

\* C26: wheel mode, shares and leg agree.  In every reachable state of a
\* wheel run the mode is selling_calls exactly when shares = 100 and
\* selling_puts exactly when shares = 0; an open put exists only in
\* selling_puts mode and an open call only in selling_calls mode, so every
\* open call is covered by 100 held shares, and at most one position is open.
C26_WheelConsistency ==
  pc = "wheel" =>
    /\ state \in {"selling_puts", "selling_calls"}
    /\ (state = "selling_calls") <=> (shares = 100)
    /\ (state = "selling_puts") <=> (shares = 0)
    /\ Len(open_trade) + Len(open_trades) <= 1
    /\ \A k \in 1..Len(open_trade) :
         /\ open_trade[k].option_type \in {"put", "call"}
         /\ open_trade[k].option_type = "put" => state = "selling_puts"
         /\ open_trade[k].option_type = "call" => (state = "selling_calls" /\ shares = 100)

\* A wheel run that was assigned and now holds 100 shares with a call open
\* against them.
C26_Witness ==
  /\ pc = "wheel"
  /\ shares = 100
  /\ open_trade # <<>>
  /\ open_trade[1].option_type = "call"
  /\ \E k \in 1..Len(ClosedInRun) : ClosedInRun[k].reason = "assigned"

\* C27: wheel puts are cash-secured.  Starting from non-negative cash, a
\* put's strike being capped at cash / 100 at entry, the cash balance of a
\* wheel run is never negative in any reachable state, in particular right
\* after an assignment.
C27_WheelCashNeverNegative ==
  (initial_cash >= 0 /\ (pc = "wheel" \/ Finished("wheel"))) => cash >= 0

\* C28: no position outlives its expiry on an evaluated bar.  In all three
\* variants, after a bar dated d that was not skipped has been processed,
\* every position still open expires strictly after d: a position with days
\* to expiry <= 0 is closed on that bar by one of the exit rules.
WheelBarEvaluated ==
  /\ pc = "wheel" /\ pc' = "wheel" /\ i' = i + 1
  /\ ~isnan(df[i].IV)

ExitReasons ==
  {"profit_target_50pct", "stop_loss_200pct", "expired_otm", "expired_itm",
   "profit_target", "assigned", "called_away", "stop_loss", "expired"}

ClosedByRuleOnBar(t) ==
  \E k \in 1..Len(ClosedOnBar) :
    /\ ClosedOnBar[k].entry_date = t.entry_date
    /\ ClosedOnBar[k].strike = t.strike
    /\ ClosedOnBar[k].option_type = t.option_type
    /\ ClosedOnBar[k].exit_date = df[i].date
    /\ ClosedOnBar[k].reason \in ExitReasons

NoneOutlivesExpiry ==
  (NakedBarEvaluated \/ SpreadBarEvaluated \/ WheelBarEvaluated) =>
    /\ \A k \in 1..Len(open_trades') : open_trades'[k].expiry_date > df[i].date
    /\ \A k \in 1..Len(open_trade') : open_trade'[k].expiry_date > df[i].date
    /\ \A k \in 1..Len(open_trades) :
         open_trades[k].expiry_date - df[i].date <= 0 => ClosedByRuleOnBar(open_trades[k])
    /\ \A k \in 1..Len(open_trade) :
         open_trade[k].expiry_date - df[i].date <= 0 => ClosedByRuleOnBar(open_trade[k])

C28_NoneOutlivesExpiry == [][NoneOutlivesExpiry]_vars

\* A position that stayed open through a skipped bar past its expiry was
\* closed as expired by the next evaluated bar.
C28_Witness ==
  /\ pc \in {"naked_put", "put_credit_spread"}
  /\ open_trades = <<>>
  /\ \E k \in 1..Len(ClosedInRun) :
       /\ ClosedInRun[k].reason \in {"expired_otm", "expired_itm", "expired"}
       /\ ClosedInRun[k].exit_date > ClosedInRun[k].expiry_date

\* C29: closed-list ordering.  In every variant the positions a run closes
\* are listed by non-decreasing exit date, every closed position has exit
\* date >= entry date, and no exit rule closes a position on the bar that
\* opened it: only an end_of_backtest close has exit date = entry date.
C29_ClosedListOrdering ==
  run_start.strategy \in {"naked_put", "wheel", "put_credit_spread"} =>
    /\ \A k \in 1..(Len(ClosedInRun) - 1) :
         ClosedInRun[k].exit_date <= ClosedInRun[k + 1].exit_date
    /\ \A k \in 1..Len(ClosedInRun) :
         /\ ClosedInRun[k].exit_date >= ClosedInRun[k].entry_date
         /\ ClosedInRun[k].exit_date = ClosedInRun[k].entry_date
              => ClosedInRun[k].reason = "end_of_backtest"

\* A finished run that closed one position by an exit rule and then, at the
\* end, a position opened on the last bar.
C29_Witness ==
  /\ pc = "idle"
  /\ Len(ClosedInRun) >= 2
  /\ ClosedInRun[1].reason # "end_of_backtest"
  /\ ClosedInRun[Len(ClosedInRun)].reason = "end_of_backtest"
  /\ ClosedInRun[Len(ClosedInRun)].exit_date = ClosedInRun[Len(ClosedInRun)].entry_date

\* C30: defined risk at spread expiry.  For every spread closed with reason
\* expired the settlement value, short intrinsic - long intrinsic at the
\* close of the exit bar, lies between 0 and the width 5.0, and its realized
\* P&L lies between -(5.0 - initial credit) x 100 x contracts and + initial
\* credit x 100 x contracts.
CloseOn(date) == df[CHOOSE k \in 1..Len(df) : df[k].date = date].Close

SettlementOf(t) ==
  (IF t.strike - CloseOn(t.exit_date) > 0 THEN t.strike - CloseOn(t.exit_date) ELSE 0)
    - (IF t.long_strike - CloseOn(t.exit_date) > 0
       THEN t.long_strike - CloseOn(t.exit_date) ELSE 0)

C30_SpreadDefinedRisk ==
  run_start.strategy = "put_credit_spread" =>
    \A k \in 1..Len(ClosedInRun) :
      ClosedInRun[k].reason = "expired" =>
        /\ SettlementOf(ClosedInRun[k]) >= 0
        /\ SettlementOf(ClosedInRun[k]) <= 500000
        /\ ClosedInRun[k].pnl
             <= Times100(SpreadNetCredit(ClosedInRun[k])) * ClosedInRun[k].contracts
        /\ ClosedInRun[k].pnl
             >= 0 - Times100(500000 - SpreadNetCredit(ClosedInRun[k]))
                      * ClosedInRun[k].contracts

\* A finished spread run in which a spread expired with the short leg in the
\* money and was settled at a loss.
C30_Witness ==
  /\ Finished("put_credit_spread")
  /\ \E k \in 1..Len(ClosedInRun) :
       /\ ClosedInRun[k].reason = "expired"
       /\ SettlementOf(ClosedInRun[k]) > 0
       /\ ClosedInRun[k].pnl < 0

====
